---------------------------- MODULE Spec2Model ----------------------------
(***************************************************************************)
(* Verification model of the architecture parsing and graph-normalization  *)
(* engine of azure-cloud-ai-visualizer.                                    *)
(*                                                                         *)
(* ArchitectureParser (services/architectureParser.ts) is imported by the  *)
(* tests and callers under src/ but its implementation is not part of the  *)
(* source tree at hand.  parseStructuredDiagram and generateNodes are       *)
(* therefore modelled from the specification (sections 4.3, 4.4, 4.5) and  *)
(* cross-checked against the fixtures of architectureParser.test.ts and    *)
(* of the generateNodes test.                                              *)
(***************************************************************************)
EXTENDS Integers, Sequences, FiniteSets, TLC

VARIABLES
    payload,    \* the loosely-typed structured diagram handed to the normalizer
    result,     \* parseStructuredDiagram(payload), once taken
    reparsed,   \* parseStructuredDiagram applied to its own output
    pc,         \* position of the normalizer pipeline
    arch,       \* the ParsedArchitecture handed to generateNodes
    stack,      \* hierarchy resolver: frames of the depth-first expansion
    parentOf,   \* hierarchy resolver: parent assignment found so far
    roots,      \* hierarchy resolver: root candidates still to expand
    steps,      \* hierarchy resolver: expansion steps taken
    nodes,      \* generateNodes: the emitted node list
    gpc         \* position of generateNodes

VARIABLES
    gen,                          \* which family of templates is being written
    template,                     \* the Bicep template text, as a token sequence
    lastIndex,                    \* resourceRegex.lastIndex (module-level /g regex)
    resources,                    \* parseBicepResources: the snippets pushed so far
    bpc,                          \* position of the IaC extractor
    currentBicepTemplate,         \* useIacStore state
    bicepResourcesByService,      \* useIacStore state
    pendingBicepTemplateUpdate,   \* useIacStore state
    storeCall,                    \* the store operation applied last
    calls                         \* calls of parseBicepResources that have returned

VARIABLES
    phrase,         \* the phrase handed to the name resolver
    found,          \* findAzureServiceByName(phrase)
    text,           \* the text scanned for connections, piece by piece
    candidate,      \* the connection the arrow pattern yields for text
    extracted,      \* the services extracted from an input
    synthesized,    \* the connections synthesized from the templates
    tpc             \* position of the resolver and the extractor

VARIABLES
    analysis,       \* the image-analysis result attached to a chat message
    architecture,   \* the ParsedArchitecture ChatPanel builds from it
    apc             \* position of the image-analysis buttons

VARIABLES
    supabaseClient,         \* lib/supabaseClient: "client" or "null" (no keys given)
    called,                 \* a call of the Supabase client has been made
    route,                  \* the page the router shows
    messages,               \* useChat: the chat history
    azureConversationId,    \* useChat: the thread id held in state
    inflight,               \* useChat: the request awaiting its reply
    sent,                   \* the payload of the last sendMessage
    db,                     \* Supabase: the project row and the conversation rows
    ops,                    \* Supabase calls issued and not yet carried out
    thread                  \* the first thread id the backend returned, and how

VARIABLES
    provider,       \* SupabaseProvider: isReady, session, and how far its effect got
    landing,        \* the landing page: prompt, cover file, startWorkspace's progress
    creation,       \* the running call of createProjectWithPrompt
    storage,        \* Supabase: the objects of project-assets and the projects rows
    lastOp          \* the operation of the page run last

VARIABLES
    lastEvent,      \* the team_final event handled last
    latestDiagram,  \* useChat: the diagram update handed to ChatPanel
    applied,        \* ChatPanel: what its latestDiagram effect did last
    processed,      \* ChatPanel: processedDiagramMessages
    diagram         \* the diagram store: its nodes, and how often it was written

VARIABLES
    sockets,        \* the WebSockets created so far, each with its readyState
    wsRef,          \* useChat: wsRef.current, an index into sockets or 0 for null
    connectingRef,  \* useChat: the socket whose promise connectingRef.current holds, or 0
    isConnected     \* useChat: the isConnected state

VARIABLES
    isTyping,            \* useChat: the isTyping state
    lastUserMessageRef,  \* useChat: lastUserMessageRef.current, a message id or NoRef
    runState,            \* useChat: the runState state
    awaiting,            \* calls of sendMessage waiting for connectWebSocket to settle
    wire,                \* payloads sent over a socket and not yet answered
    fetches,                \* calls of sendMessage waiting for their fetch to settle
    load,                \* the conversation load of the effect of lines 1064-1137
    conversations,       \* Supabase: the conversation rows of the project, oldest first
    inserts,             \* inserts issued by persistMessage and not yet carried out
    onErrorCalls,        \* how often options.onError has been called
    clock                \* message ids drawn, sends made and kept, the backend's last event

normVars == <<payload, result, reparsed, pc>>
textVars == <<phrase, found, text, candidate, extracted, synthesized, tpc>>
nodeVars == <<arch, stack, parentOf, roots, steps, nodes, gpc>>
iacVars == <<gen, template, lastIndex, resources, bpc, currentBicepTemplate,
             bicepResourcesByService, pendingBicepTemplateUpdate, storeCall, calls>>
analysisVars == <<analysis, architecture, apc>>
envVars == <<supabaseClient, called, route>>
diagVars == <<lastEvent, latestDiagram, applied, processed, diagram>>
chatVars == <<messages, azureConversationId, inflight, sent, db, ops, thread, diagVars>>
landVars == <<provider, landing, creation, storage, lastOp>>
sockVars == <<sockets, wsRef, connectingRef, isConnected>>
sessVars == <<isTyping, lastUserMessageRef, runState, awaiting, wire, fetches, load,
              conversations, inserts, onErrorCalls, clock>>
appVars == <<analysisVars, envVars, chatVars, landVars, sockVars, sessVars>>
vars == <<payload, result, reparsed, pc, arch, stack, parentOf, roots, steps, nodes, gpc,
          gen, template, lastIndex, resources, bpc, currentBicepTemplate,
          bicepResourcesByService, pendingBicepTemplateUpdate, storeCall, calls,
          phrase, found, text, candidate, extracted, synthesized, tpc,
          analysis, architecture, apc,
          supabaseClient, called, route,
          messages, azureConversationId, inflight, sent, db, ops, thread,
          provider, landing, creation, storage, lastOp,
          lastEvent, latestDiagram, applied, processed, diagram,
          sockets, wsRef, connectingRef, isConnected,
          isTyping, lastUserMessageRef, runState, awaiting, wire, fetches, load,
          conversations, inserts, onErrorCalls, clock>>

(***************************************************************************)
(* Bounds of the explored inputs.                                          *)
(***************************************************************************)
\* The size of the explored payloads: one unit per entry of services, groups
\* and connections, and one per id an entry refers to (a groupIds element, a
\* members element, a parentId).
MaxWeight == 4

\* Entity ids of structured payloads: services and groups share one id space,
\* as in the fixtures, where a catalog id names a service and a container.
Ids == {"a", "b", "c"}

\* Up to renaming, the payloads explored are those over Ids: their services
\* carry the ids of ServiceIds and their declared groups those of
\* DeclaredGroupIds, one id being common to both; references range over Ids.
ServiceIds == {"a", "b"}
DeclaredGroupIds == {"b", "c"}

\* An absent optional field (parentId, sourceServiceId).
None == "none"

\* The lists of n ids.
IdLists(n) == [1..n -> Ids]

(***************************************************************************)
(* Sequence helpers.                                                       *)
(***************************************************************************)
Range(s) == {s[i] : i \in 1..Len(s)}

RECURSIVE Flatten(_)
Flatten(ss) == IF ss = <<>> THEN <<>> ELSE Head(ss) \o Flatten(Tail(ss))

\* Deduplication that keeps the first occurrence of every element.
RECURSIVE Dedup(_)
Dedup(s) ==
    IF s = <<>> THEN <<>>
    ELSE LET r == Dedup(SubSeq(s, 1, Len(s) - 1))
             x == s[Len(s)]
         IN  IF x \in Range(r) THEN r ELSE Append(r, x)

NoDuplicates(s) == \A i, j \in 1..Len(s) : s[i] = s[j] => i = j

\* Index of the first occurrence of x in s (0 when absent).
FirstIndex(s, x) ==
    IF x \in Range(s) THEN CHOOSE i \in 1..Len(s) : s[i] = x /\ \A j \in 1..(i - 1) : s[j] # x
    ELSE 0


(***************************************************************************)
(* Structured Diagram Validator/Normalizer (specification 4.3, 6, 7).      *)
(*                                                                         *)
(* A payload is [shape, services, groups, connections].  shape tells what  *)
(* the loosely-typed value is: "object" is an object with a services list; *)
(* the other shapes are the unusable ones.                                 *)
(*   service entry    [id, groupIds]                                       *)
(*   group entry      [id, members, parentId]                              *)
(*   connection entry [from, to]                                           *)
(***************************************************************************)
UnusableShapes == {"null", "notObject", "servicesMissing", "servicesNotList"}
Shapes == {"object"} \cup UnusableShapes

ConnectionEntries == [from : Ids, to : Ids]

RECURSIVE SumOf(_)
SumOf(ns) == IF ns = <<>> THEN 0 ELSE Head(ns) + SumOf(Tail(ns))

ServiceWeight(e) == 1 + Len(e.groupIds)
GroupWeight(e) == 1 + Len(e.members) + (IF e.parentId = None THEN 0 ELSE 1)

PayloadWeight(p) ==
    SumOf([i \in 1..Len(p.services) |-> ServiceWeight(p.services[i])])
    + SumOf([i \in 1..Len(p.groups) |-> GroupWeight(p.groups[i])])
    + Len(p.connections)

\* The entries that still fit into a payload with `room` units left.
ServiceEntries(room) ==
    UNION {[id : ServiceIds, groupIds : IdLists(n)] : n \in 0..(room - 1)}
GroupEntries(room) ==
    UNION {[id : DeclaredGroupIds, members : IdLists(n), parentId : {None}] : n \in 0..(room - 1)}
    \cup UNION {[id : DeclaredGroupIds, members : IdLists(n), parentId : Ids] : n \in 0..(room - 2)}

Null == [kind |-> "null"]

EmptyPayload(shape) ==
    [shape |-> shape, services |-> <<>>, groups |-> <<>>, connections |-> <<>>]

\* Ids of a list of entries, in list order.
IdsOf(entries) == [i \in 1..Len(entries) |-> entries[i].id]

\* Mutation: a repeated id keeps the groupIds of its first occurrence only.
dedupeServices_firstOnly(services) ==
    LET ids == Dedup(IdsOf(services))
        first(id) == services[FirstIndex(IdsOf(services), id)]
    IN  [k \in 1..Len(ids) |-> [id |-> ids[k], groupIds |-> Dedup(first(ids[k]).groupIds)]]

\* Step 1, service dedup: one entry per id, in first-seen order, carrying
\* the union (first-seen order) of the groupIds of all its occurrences.
dedupeServices(services) ==
    LET ids == Dedup(IdsOf(services))
        gidsOf(id) ==
            Dedup(Flatten([i \in 1..Len(services) |->
                IF services[i].id = id THEN services[i].groupIds ELSE <<>>]))
    IN  [k \in 1..Len(ids) |-> [id |-> ids[k], groupIds |-> gidsOf(ids[k])]]

\* Ids used as a parent by an explicit group entry, in list order.
parentIdsOf(groups) ==
    LET ps == [i \in 1..Len(groups) |-> groups[i].parentId]
    IN  SelectSeq(ps, LAMBDA q : q # None)

\* Mutation: only the declared groups enter the group table.
groupTableIds_declaredOnly(p) == Dedup(IdsOf(p.groups))

\* Step 2, keys of the group table: the explicit groups, then every group
\* named by a service's groupIds, then every service that another entity
\* lists as its parent (container promotion).
groupTableIds(p) ==
    LET svcs == dedupeServices(p.services)
        svcIds == Range(IdsOf(svcs))
    IN  Dedup(IdsOf(p.groups)
              \o Flatten([k \in 1..Len(svcs) |-> svcs[k].groupIds])
              \o SelectSeq(parentIdsOf(p.groups), LAMBDA q : q \in svcIds))

\* Every id seen as a member of group g: the members of its explicit
\* entries, then the services that name g in their groupIds.
memberOccurrences(p, g) ==
    LET svcs == dedupeServices(p.services)
    IN  Flatten([i \in 1..Len(p.groups) |->
            IF p.groups[i].id = g THEN p.groups[i].members ELSE <<>>])
        \o Flatten([k \in 1..Len(svcs) |->
            IF g \in Range(svcs[k].groupIds) THEN <<svcs[k].id>> ELSE <<>>])

\* The first non-null parentId among the explicit entries of group g.
resolveParentId(p, g) ==
    LET ps == parentIdsOf(SelectSeq(p.groups, LAMBDA e : e.id = g))
    IN  IF ps = <<>> THEN None ELSE Head(ps)

\* Mutation: only the ids of the payload's services count as surviving.
survivingIds_servicesOnly(p) == Range(IdsOf(p.services))

\* Entities that survive steps 1 and 2: every service id and every group id.
survivingIds(p) == Range(IdsOf(p.services)) \cup Range(groupTableIds(p))

\* Mutation: a promoted service also stays in services.
survivingServices_keepPromoted(p) ==
    LET kept == dedupeServices(p.services)
    IN  [k \in 1..Len(kept) |-> [id |-> kept[k].id]]

\* A promoted service is removed from services; it lives on as a group.
survivingServices(p) ==
    LET gids == Range(groupTableIds(p))
        kept == SelectSeq(dedupeServices(p.services), LAMBDA s : s.id \notin gids)
    IN  [k \in 1..Len(kept) |-> [id |-> kept[k].id]]

\* Mutation: members that refer to no surviving entity are kept.
materializeMembers_keepDangling(p, g) == Dedup(memberOccurrences(p, g))

\* Mutation: members are not deduplicated.
materializeMembers_noDedup(p, g) ==
    LET alive == survivingIds(p)
    IN  SelectSeq(memberOccurrences(p, g), LAMBDA m : m \in alive)

\* members: deduplicated in first-seen order, dangling ids dropped.
materializeMembers(p, g) ==
    LET alive == survivingIds(p)
    IN  SelectSeq(Dedup(memberOccurrences(p, g)), LAMBDA m : m \in alive)

materializeGroups(p) ==
    LET ids == groupTableIds(p)
        svcIds == Range(IdsOf(p.services))
    IN  [k \in 1..Len(ids) |->
            [id |-> ids[k],
             members |-> materializeMembers(p, ids[k]),
             parentId |-> resolveParentId(p, ids[k]),
             sourceServiceId |-> IF ids[k] \in svcIds THEN ids[k] ELSE None]]

\* Mutation: self-loops are not rejected.
keepConnection_allowSelfLoop(p, c) ==
    /\ c.from \in survivingIds(p)
    /\ c.to \in survivingIds(p)

\* Step 3, connection filtering: no self-loop, both ends survive.
keepConnection(p, c) ==
    /\ c.from # c.to
    /\ c.from \in survivingIds(p)
    /\ c.to \in survivingIds(p)

filterConnections(p) == SelectSeq(p.connections, LAMBDA c : keepConnection(p, c))

\* Mutation: only a null payload is refused.
parseStructuredDiagram_nullCheckOnly(p) ==
    IF p.shape = "null" THEN Null
    ELSE [kind |-> "architecture",
          services |-> survivingServices(p),
          groups |-> materializeGroups(p),
          connections |-> filterConnections(p)]

parseStructuredDiagram(p) ==
    IF p.shape # "object" THEN Null
    ELSE [kind |-> "architecture",
          services |-> survivingServices(p),
          groups |-> materializeGroups(p),
          connections |-> filterConnections(p)]

\* A returned ParsedArchitecture read back as a structured payload.
asPayload(a) ==
    [shape |-> "object",
     services |-> [k \in 1..Len(a.services) |-> [id |-> a.services[k].id, groupIds |-> <<>>]],
     groups |-> [k \in 1..Len(a.groups) |->
                    [id |-> a.groups[k].id, members |-> a.groups[k].members,
                     parentId |-> a.groups[k].parentId]],
     connections |-> a.connections]

(***************************************************************************)
(* The normalizer as a state machine: a payload is assembled entry by      *)
(* entry, parsed, and the returned architecture is parsed again.           *)
(***************************************************************************)
NotTaken == [kind |-> "notTaken"]

NormIdle ==
    /\ payload = EmptyPayload("null")
    /\ result = NotTaken
    /\ reparsed = NotTaken
    /\ pc = "idle"

NodesIdle ==
    /\ arch = NotTaken
    /\ stack = <<>>
    /\ parentOf = <<>>
    /\ roots = <<>>
    /\ steps = 0
    /\ nodes = <<>>
    /\ gpc = "idle"

\* The IaC extractor and store at rest: nothing written, nothing parsed, the
\* store as created (App.tsx 86-89).
IacIdle ==
    /\ gen = "none"
    /\ template = <<>>
    /\ lastIndex = 0
    /\ resources = <<>>
    /\ bpc = "idle"
    /\ currentBicepTemplate = "null"
    /\ bicepResourcesByService = <<>>
    /\ pendingBicepTemplateUpdate = "null"
    /\ storeCall = [op |-> "none"]
    /\ calls = 0

\* The resolver and the extractor at rest.
TextIdle ==
    /\ phrase = None
    /\ found = [how |-> "notTaken"]
    /\ text = <<>>
    /\ candidate = [from |-> <<>>, to |-> <<>>]
    /\ extracted = {}
    /\ synthesized = {}
    /\ tpc = "idle"

\* No chat message carries an image-analysis result.
AnalysisIdle ==
    /\ analysis = [services |-> <<>>, connections |-> <<>>]
    /\ architecture = [services |-> <<>>, connections |-> <<>>, layout |-> "none"]
    /\ apc = "idle"

\* The page not opened yet; no Supabase keys.
EnvIdle ==
    /\ supabaseClient = "null"
    /\ called = FALSE
    /\ route = "none"

NoRequest == [via |-> "none", user |-> 0]
NoPayload == [via |-> "none"]
NoThread == [id |-> "null", via |-> "none"]
NoArchitecture == [source |-> "null", services |-> 0]
PlainEvent == [diagram |-> "absent", diagram_raw |-> "absent", message |-> "prose"]
NoDiagram == [messageId |-> 0, architecture |-> NoArchitecture, raw |-> "absent",
              messageText |-> ""]
NothingApplied == [messageId |-> 0, source |-> "null", outcome |-> "none", services |-> 0,
                   skipped |-> FALSE]
EmptyDiagram == [nodes |-> 0, writes |-> 0]

DiagramIdle ==
    /\ lastEvent = PlainEvent
    /\ latestDiagram = NoDiagram
    /\ applied = NothingApplied
    /\ processed = {}
    /\ diagram = EmptyDiagram

\* useChat not mounted.
ChatIdle ==
    /\ messages = <<>>
    /\ azureConversationId = "null"
    /\ inflight = NoRequest
    /\ sent = NoPayload
    /\ db = [project |-> "null", rows |-> <<>>]
    /\ ops = <<>>
    /\ thread = NoThread
    /\ DiagramIdle

NoCreation == [cover |-> "null", upload |-> "none", inserted |-> FALSE, before |-> 0]

\* The landing page as first rendered: nothing typed, no file chosen, the
\* provider's effect not yet run, nothing stored.
LandIdle ==
    /\ provider = [isReady |-> FALSE, session |-> "null", stage |-> "init"]
    /\ landing = [prompt |-> [folded |-> "", casing |-> "lower", pad |-> "none"],
                  coverFile |-> "null", pc |-> "idle", attempts |-> 0,
                  isSubmitting |-> FALSE, errorMessage |-> "null"]
    /\ creation = NoCreation
    /\ storage = [objects |-> 0, projects |-> <<>>]
    /\ lastOp = "none"

\* No socket created (Index.tsx 621-624).
SocketIdle ==
    /\ sockets = <<>>
    /\ wsRef = 0
    /\ connectingRef = 0
    /\ isConnected = FALSE

NoRef == 0
NoRun == [runId |-> "null", status |-> "null"]
NoLoad == [phase |-> "none", rows |-> <<>>]
NoEvent == [type |-> "none", runId |-> "null"]

\* useChat as first rendered, nothing sent (Index.tsx 620-628).
SessionIdle ==
    /\ isTyping = FALSE
    /\ lastUserMessageRef = NoRef
    /\ runState = NoRun
    /\ awaiting = {}
    /\ wire = {}
    /\ fetches = {}
    /\ load = NoLoad
    /\ conversations = <<>>
    /\ inserts = {}
    /\ onErrorCalls = 0
    /\ clock = [now |-> 0, sends |-> 0, kept |-> {}, event |-> NoEvent]

\* The front end at rest.
AppIdle == AnalysisIdle /\ EnvIdle /\ ChatIdle /\ LandIdle /\ SocketIdle /\ SessionIdle

\* The other families at rest.
CoreIdle == NormIdle /\ NodesIdle /\ IacIdle /\ TextIdle

NormInit ==
    /\ payload \in {EmptyPayload(sh) : sh \in Shapes}
    /\ result = NotTaken
    /\ reparsed = NotTaken
    /\ pc = "build"

AddService(e) ==
    /\ pc = "build"
    /\ payload.shape = "object"
    /\ payload' = [payload EXCEPT !.services = Append(@, e)]
    /\ UNCHANGED <<result, reparsed, pc>>
    /\ UNCHANGED <<nodeVars, iacVars, textVars, appVars>>

AddGroup(e) ==
    /\ pc = "build"
    /\ payload.shape = "object"
    /\ payload' = [payload EXCEPT !.groups = Append(@, e)]
    /\ UNCHANGED <<result, reparsed, pc>>
    /\ UNCHANGED <<nodeVars, iacVars, textVars, appVars>>

AddConnection(e) ==
    /\ pc = "build"
    /\ payload.shape = "object"
    /\ PayloadWeight(payload) < MaxWeight
    /\ payload' = [payload EXCEPT !.connections = Append(@, e)]
    /\ UNCHANGED <<result, reparsed, pc>>
    /\ UNCHANGED <<nodeVars, iacVars, textVars, appVars>>

\* result = ArchitectureParser.parseStructuredDiagram(payload)
Parse ==
    /\ pc = "build"
    /\ result' = parseStructuredDiagram(payload)
    /\ pc' = "parsed"
    /\ UNCHANGED <<payload, reparsed>>
    /\ UNCHANGED <<nodeVars, iacVars, textVars, appVars>>

\* The normalizer run on its own output.
Reparse ==
    /\ pc = "parsed"
    /\ result # Null
    /\ reparsed' = parseStructuredDiagram(asPayload(result))
    /\ pc' = "reparsed"
    /\ UNCHANGED <<payload, result>>
    /\ UNCHANGED <<nodeVars, iacVars, textVars, appVars>>

NormNext ==
    \/ \E e \in ServiceEntries(MaxWeight - PayloadWeight(payload)) : AddService(e)
    \/ \E e \in GroupEntries(MaxWeight - PayloadWeight(payload)) : AddGroup(e)
    \/ \E e \in ConnectionEntries : AddConnection(e)
    \/ Parse
    \/ Reparse

NormStart == NormInit /\ NodesIdle /\ IacIdle /\ TextIdle /\ AppIdle

SpecNorm == NormStart /\ [][NormNext]_vars

(***************************************************************************)
(* Group Hierarchy Resolver and Node Generator (specification 4.4, 4.5).   *)
(*                                                                         *)
(* generateNodes(architecture) resolves the containment hierarchy by a     *)
(* depth-first expansion from each root candidate, with the set of groups  *)
(* on the current expansion path as its cycle guard, and then emits one    *)
(* node per service and one container node per group.  The expansion is    *)
(* modelled step by step, one member per step, so that its termination is  *)
(* a property of the behaviours and not of an evaluation.                  *)
(***************************************************************************)
MaxNodeServices == 2
StepCap == 40

NodeGroupIds == <<"A", "B">>
NodeServiceIds == [i \in 1..MaxNodeServices |-> <<"s1", "s2", "s3", "s4">>[i]]
NodeUniverse == NodeGroupIds \o NodeServiceIds

\* The members lists of a group of an explored architecture: every choice of
\* ids of the universe, in the universe's order.
NodeMemberLists ==
    {SelectSeq(NodeUniverse, LAMBDA x : x \in S) : S \in SUBSET Range(NodeUniverse)}

NodeGroups(id) ==
    [id : {id}, members : NodeMemberLists, parentId : Range(NodeGroupIds) \cup {None}]

\* The well-formed architectures explored: the first k services, and any
\* choice of the groups, each with any members and any parentId, so that
\* members and parentId may form cycles and may dangle.
Architectures ==
    {[kind |-> "architecture",
      services |-> [i \in 1..k |-> [id |-> NodeServiceIds[i]]],
      groups |-> ga \o gb,
      connections |-> <<>>] :
        k \in 0..MaxNodeServices,
        ga \in {<<>>} \cup {<<g>> : g \in NodeGroups("A")},
        gb \in {<<>>} \cup {<<g>> : g \in NodeGroups("B")}}

groupIdsOf(a) == Range(IdsOf(a.groups))
serviceIdsOf(a) == Range(IdsOf(a.services))
entityIdsOf(a) == serviceIdsOf(a) \cup groupIdsOf(a)

groupOf(a, g) == CHOOSE e \in Range(a.groups) : e.id = g

\* What a group contains: its members, then the groups that declare it as
\* their parent.
childrenOf(a, g) ==
    LET ms == groupOf(a, g).members
    IN  ms \o SelectSeq(IdsOf(a.groups),
                        LAMBDA h : groupOf(a, h).parentId = g /\ h \notin Range(ms))

\* Group g has a parent: some group contains it, as a member or through g's
\* parentId.
hasParent(a, g) == \E h \in groupIdsOf(a) : g \in Range(childrenOf(a, h))

\* Root candidates: the groups without a parent or, if there is none, an
\* arbitrary group (the first one).
rootCandidates(a) ==
    LET free == SelectSeq(IdsOf(a.groups), LAMBDA g : ~hasParent(a, g))
    IN  IF free # <<>> THEN free
        ELSE IF a.groups # <<>> THEN <<a.groups[1].id>>
        ELSE <<>>

\* The groups currently being expanded.
expansionPath(st) == {st[i].group : i \in 1..Len(st)}

\* Mutation: the current expansion path is not consulted.
followsInto_noPathCheck(a, st, c) == c \in groupIdsOf(a)

\* Whether the edge from the group being expanded to member c is followed
\* into c's subtree: c is a group that is not already on the path.
followsInto(a, st, c) == c \in groupIdsOf(a) /\ c \notin expansionPath(st)

\* Mutation: only the services that the traversal reached are emitted.
emitNodes_reachedOnly(a, par) ==
    LET reached == SelectSeq(a.services, LAMBDA sv : par[sv.id] # None)
    IN  [i \in 1..Len(reached) |->
            [id |-> reached[i].id, kind |-> "service", parentId |-> par[reached[i].id]]]
        \o [i \in 1..Len(a.groups) |->
            [id |-> a.groups[i].id, kind |-> "group", parentId |-> par[a.groups[i].id]]]

\* Mutation: a group node carries the parentId its group declares, not the
\* parent the resolver found.
emitNodes_declaredParent(a, par) ==
    [i \in 1..Len(a.services) |->
        [id |-> a.services[i].id, kind |-> "service", parentId |-> par[a.services[i].id]]]
    \o [i \in 1..Len(a.groups) |->
        [id |-> a.groups[i].id, kind |-> "group", parentId |-> a.groups[i].parentId]]

\* One node per service and one container node per group, each with the
\* parent the resolver found for it.
emitNodes(a, par) ==
    [i \in 1..Len(a.services) |->
        [id |-> a.services[i].id, kind |-> "service", parentId |-> par[a.services[i].id]]]
    \o [i \in 1..Len(a.groups) |->
        [id |-> a.groups[i].id, kind |-> "group", parentId |-> par[a.groups[i].id]]]

NodesInit ==
    /\ arch \in Architectures
    /\ stack = <<>>
    /\ parentOf = <<>>
    /\ roots = <<>>
    /\ steps = 0
    /\ nodes = <<>>
    /\ gpc = "start"

\* generateNodes is entered: nothing has a parent yet.
GenStart ==
    /\ gpc = "start"
    /\ roots' = rootCandidates(arch)
    /\ parentOf' = [x \in entityIdsOf(arch) |-> None]
    /\ gpc' = "resolve"
    /\ UNCHANGED <<arch, stack, steps, nodes>>
    /\ UNCHANGED <<normVars, iacVars, textVars, appVars>>

\* The expansion starts from the next root candidate.
ExpandRoot ==
    /\ gpc = "resolve"
    /\ stack = <<>>
    /\ roots # <<>>
    /\ stack' = <<[group |-> Head(roots), todo |-> childrenOf(arch, Head(roots))]>>
    /\ roots' = Tail(roots)
    /\ UNCHANGED <<arch, parentOf, steps, nodes, gpc>>
    /\ UNCHANGED <<normVars, iacVars, textVars, appVars>>

\* The next member of the group on top of the stack is visited.
ExpandMember ==
    /\ gpc = "resolve"
    /\ stack # <<>>
    /\ steps < StepCap
    /\ LET top == stack[Len(stack)]
       IN  /\ top.todo # <<>>
           /\ LET c == Head(top.todo)
                  rest == [stack EXCEPT ![Len(stack)].todo = Tail(top.todo)]
              IN  IF followsInto(arch, stack, c)
                  THEN /\ parentOf' = [parentOf EXCEPT ![c] = top.group]
                       /\ stack' = Append(rest, [group |-> c, todo |-> childrenOf(arch, c)])
                  ELSE /\ parentOf' = IF c \in serviceIdsOf(arch)
                                      THEN [parentOf EXCEPT ![c] = top.group]
                                      ELSE parentOf
                       /\ stack' = rest
    /\ steps' = steps + 1
    /\ UNCHANGED <<arch, roots, nodes, gpc>>
    /\ UNCHANGED <<normVars, iacVars, textVars, appVars>>

\* Every member of the group on top of the stack was visited.
ExpandReturn ==
    /\ gpc = "resolve"
    /\ stack # <<>>
    /\ stack[Len(stack)].todo = <<>>
    /\ stack' = SubSeq(stack, 1, Len(stack) - 1)
    /\ UNCHANGED <<arch, parentOf, roots, steps, nodes, gpc>>
    /\ UNCHANGED <<normVars, iacVars, textVars, appVars>>

\* The hierarchy is resolved: the nodes are emitted and returned.
Emit ==
    /\ gpc = "resolve"
    /\ stack = <<>>
    /\ roots = <<>>
    /\ nodes' = emitNodes(arch, parentOf)
    /\ gpc' = "done"
    /\ UNCHANGED <<arch, stack, parentOf, roots, steps>>
    /\ UNCHANGED <<normVars, iacVars, textVars, appVars>>

NodesNext ==
    \/ GenStart
    \/ ExpandRoot
    \/ ExpandMember
    \/ ExpandReturn
    \/ Emit

NodesStart == NodesInit /\ NormIdle /\ IacIdle /\ TextIdle /\ AppIdle

SpecNodes == NodesStart /\ [][NodesNext]_vars

\* generateNodes is synchronous: once entered it runs to its return.
SpecNodesFair == SpecNodes /\ WF_vars(NodesNext)

(***************************************************************************)
(* Properties of the structured diagram normalizer.                        *)
(***************************************************************************)
\* parseStructuredDiagram has returned a ParsedArchitecture for the payload.
Parsed == pc \in {"parsed", "reparsed"} /\ result # Null

\* The ids of the services of the payload, and of its declared groups.
payloadServiceIds == Range(IdsOf(payload.services))
payloadGroupIds == Range(IdsOf(payload.groups))

\* The group of the result with id g, if any.
resultGroups(g) == {e \in Range(result.groups) : e.id = g}

\* How many entries of a list carry id x.
Occurrences(entries, x) == Cardinality({i \in 1..Len(entries) : entries[i].id = x})

\* Both checks of connection filtering, read against the returned result.
PassesChecks(c) ==
    /\ c.from # c.to
    /\ c.from \in entityIdsOf(result)
    /\ c.to \in entityIdsOf(result)

\* C3: every connection of the result has from # to and both endpoints among
\* the ids of the result's services and groups, and the result's connections
\* are exactly the payload's connections that pass both checks, in order.
ThmC3_ConnectionsFiltered ==
    Parsed =>
        /\ \A c \in Range(result.connections) : PassesChecks(c)
        /\ result.connections = SelectSeq(payload.connections, PassesChecks)

\* A self-loop between surviving entities was offered and dropped.
WitC3_SelfLoopDropped ==
    /\ Parsed
    /\ \E c \in Range(payload.connections) : c.from = c.to /\ c.from \in entityIdsOf(result)
    /\ result.connections = <<>>

\* Two entries of the payload's services share id x and differ in groupIds.
DuplicatedWithDifferentGroupIds(x) ==
    \E i, j \in 1..Len(payload.services) :
        /\ i # j
        /\ payload.services[i].id = x
        /\ payload.services[j].id = x
        /\ payload.services[i].groupIds # payload.services[j].groupIds

\* The union of the groupIds of all occurrences of service id x.
GroupIdsUnion(x) ==
    UNION {Range(payload.services[i].groupIds) :
              i \in {k \in 1..Len(payload.services) : payload.services[k].id = x}}

MemberOfAll(x, gs) == \A g \in gs : \E e \in resultGroups(g) : x \in Range(e.members)

\* C4 as stated: a service id declared twice with different groupIds is
\* exactly one service of the result and a member of every group of the
\* union of its groupIds.
OrigC4_ExactlyOneService ==
    Parsed =>
        \A x \in payloadServiceIds :
            DuplicatedWithDifferentGroupIds(x) =>
                /\ Occurrences(result.services, x) = 1
                /\ MemberOfAll(x, GroupIdsUnion(x))

\* C4 as amended: such an id is exactly one entity of the result, a service
\* or, when the id is promoted to a container, a group and no service; never
\* two services; and it is a member of every group of the union.
ThmC4_DedupUnion ==
    Parsed =>
        \A x \in payloadServiceIds :
            DuplicatedWithDifferentGroupIds(x) =>
                /\ Occurrences(result.services, x) + Occurrences(result.groups, x) = 1
                /\ MemberOfAll(x, GroupIdsUnion(x))

\* A duplicated service that stays a service and joins two different groups.
WitC4_MergedMemberships ==
    /\ Parsed
    /\ \E x \in payloadServiceIds :
        /\ DuplicatedWithDifferentGroupIds(x)
        /\ Occurrences(result.services, x) = 1
        /\ Cardinality(GroupIdsUnion(x)) = 2

\* Service id x is used as a container by another entity of the payload: in
\* the groupIds of another service or as the parentId of another group.
UsedAsContainer(x) ==
    \/ \E i \in 1..Len(payload.services) :
          payload.services[i].id # x /\ x \in Range(payload.services[i].groupIds)
    \/ \E i \in 1..Len(payload.groups) :
          payload.groups[i].id # x /\ payload.groups[i].parentId = x

\* C5: no id is both a service and a group of the result, and a service used
\* as a container by another entity is no service of the result but exactly
\* one group, which keeps the service id in sourceServiceId.
ThmC5_PromotedOnce ==
    Parsed =>
        /\ serviceIdsOf(result) \cap groupIdsOf(result) = {}
        /\ \A x \in payloadServiceIds :
              UsedAsContainer(x) =>
                  /\ x \notin serviceIdsOf(result)
                  /\ Occurrences(result.groups, x) = 1
                  /\ \A e \in resultGroups(x) : e.sourceServiceId = x

\* One service is promoted because another service names it in groupIds,
\* and that other service stays a service.
WitC5_ServicePromoted ==
    /\ Parsed
    /\ \E x \in payloadServiceIds :
        /\ UsedAsContainer(x)
        /\ x \notin payloadGroupIds
        /\ Len(result.services) = 1

\* What idempotence compares of a group.
GroupCore(e) == [id |-> e.id, members |-> e.members, parentId |-> e.parentId]

\* C6: the normalizer run on its own output returns the same services, the
\* same groups (ids, members, parentId, in the same order) and the same
\* connections.
ThmC6_Idempotent ==
    pc = "reparsed" =>
        /\ reparsed # Null
        /\ reparsed.services = result.services
        /\ [k \in 1..Len(reparsed.groups) |-> GroupCore(reparsed.groups[k])]
              = [k \in 1..Len(result.groups) |-> GroupCore(result.groups[k])]
        /\ reparsed.connections = result.connections

\* A result with a promoted service, a kept service and a kept connection
\* was normalized again.
WitC6_Renormalized ==
    /\ pc = "reparsed"
    /\ Len(result.services) = 1
    /\ \E e \in Range(result.groups) : e.sourceServiceId # None
    /\ Len(result.connections) = 1

ThmC8_MembersResolve ==
    Parsed =>
        \A e \in Range(result.groups) : Range(e.members) \subseteq entityIdsOf(result)

\* A declared group listed a member that names no entity; it was dropped
\* while another member was kept.
WitC8_DanglingMemberDropped ==
    /\ Parsed
    /\ \E i \in 1..Len(payload.groups) :
        /\ \E m \in Range(payload.groups[i].members) : m \notin entityIdsOf(result)
        /\ \E e \in resultGroups(payload.groups[i].id) : e.members # <<>>

\* C9: the members of every group of the result hold no id twice and follow
\* the order of first occurrence in the group's explicit entries and then in
\* the groupIds of the services.
ThmC9_MembersDedupOrdered ==
    Parsed =>
        \A e \in Range(result.groups) :
            /\ NoDuplicates(e.members)
            /\ \A i, j \in 1..Len(e.members) :
                  i < j => FirstIndex(memberOccurrences(payload, e.id), e.members[i])
                             < FirstIndex(memberOccurrences(payload, e.id), e.members[j])

\* A member was seen twice for a group, both times naming a surviving
\* entity, and is listed once.
WitC9_RepeatedMembers ==
    /\ Parsed
    /\ \E e \in Range(result.groups) :
        /\ e.members # <<>>
        /\ Len(memberOccurrences(payload, e.id)) > Len(e.members)
        /\ Range(memberOccurrences(payload, e.id)) \subseteq entityIdsOf(result)

\* C10: for every service entry and every group id g of its groupIds the
\* result has a group g whose members include the service's id.
ThmC10_GroupIdsMaterialized ==
    Parsed =>
        \A i \in 1..Len(payload.services) :
            \A g \in Range(payload.services[i].groupIds) :
                \E e \in resultGroups(g) : payload.services[i].id \in Range(e.members)

\* A group that is neither declared nor a service was synthesized from a
\* service's groupIds.
WitC10_GroupSynthesized ==
    /\ Parsed
    /\ \E i \in 1..Len(payload.services) :
        \E g \in Range(payload.services[i].groupIds) :
            /\ g \notin payloadGroupIds
            /\ g \notin payloadServiceIds
            /\ \E e \in resultGroups(g) : e.members = <<payload.services[i].id>>

(***************************************************************************)
(* Properties of the node generator.                                       *)
(***************************************************************************)
\* The groups that group g contains directly.
groupChildren(a, g) == Range(childrenOf(a, g)) \cap groupIdsOf(a)

\* The groups reachable from the groups of S within n containment edges.
RECURSIVE ReachableWithin(_, _, _)
ReachableWithin(a, S, n) ==
    IF n = 0 THEN S
    ELSE ReachableWithin(a, S \cup UNION {groupChildren(a, g) : g \in S}, n - 1)

\* The members/parentId relations of the groups contain a cycle.
HasCycle(a) ==
    \E g \in groupIdsOf(a) :
        g \in ReachableWithin(a, groupChildren(a, g), Cardinality(groupIdsOf(a)))

\* The fixture of the generateNodes test: two groups that each list the other
\* as a member and as their parent.
MutualGroups ==
    <<[id |-> "A", members |-> <<"B", "s1">>, parentId |-> "B"],
      [id |-> "B", members |-> <<"A", "s2">>, parentId |-> "A"]>>

\* C1: on an architecture whose group relations contain a cycle, generateNodes
\* eventually returns, and the depth of the expansion never exceeds the
\* number of groups.
ThmC1_TerminatesOnCycles ==
    /\ HasCycle(arch) => <>(gpc = "done")
    /\ [](Len(stack) <= Len(arch.groups))

\* generateNodes returned on the mutually referencing groups of the test,
\* with a node for each of the two services.
WitC1_MutualGroupsDone ==
    /\ gpc = "done"
    /\ arch.groups = MutualGroups
    /\ \E n \in Range(nodes) : n.id = "s1"
    /\ \E n \in Range(nodes) : n.id = "s2"

nodeParent(x) ==
    IF \E n \in Range(nodes) : n.id = x
    THEN (CHOOSE n \in Range(nodes) : n.id = x).parentId
    ELSE None

\* The entity reached from x by following n parent references; None once a
\* node without parent was passed.
RECURSIVE AncestorAt(_, _)
AncestorAt(x, n) ==
    IF n = 0 \/ x = None THEN x ELSE AncestorAt(nodeParent(x), n - 1)

LBrace == "{"
RBrace == "}"
DQuote == "\""
Backslash == "\\"
Newline == "nl"

\* The texts resourceRegex matches: `resource <identifier> '<type>'`.
\*   D1  resource web 'Microsoft.Web/sites@2022-03-01'
\*   D2  resource widget 'Contoso.Custom/widgets'
\*   D3  resource site2 'Microsoft.Web/sites@2022-03-01@preview'
DeclTokens == {"D1", "D2", "D3"}

\* Capture group 1 of resourceRegex.
declIdentifier(tok) ==
    CASE tok = "D1" -> "web"
      [] tok = "D2" -> "widget"
      [] tok = "D3" -> "site2"

\* Capture group 2 of resourceRegex, already cut at its '@' characters
\* (String.prototype.split).
splitAt(tok) ==
    CASE tok = "D1" -> <<"Microsoft.Web/sites", "2022-03-01">>
      [] tok = "D2" -> <<"Contoso.Custom/widgets">>
      [] tok = "D3" -> <<"Microsoft.Web/sites", "2022-03-01", "preview">>

\* Line starts the property regex matches: two blanks, a key, a colon.
\*   Pa `  sku:`   Pb `  properties:`   Pc `    tier:`
PropTokens == {"Pa", "Pb", "Pc"}

propKey(tok) ==
    CASE tok = "Pa" -> "sku"
      [] tok = "Pb" -> "properties"
      [] tok = "Pc" -> "tier"

\* Tokens String.prototype.trim removes.
Whitespace == {Newline}

\* `!template?.trim()` of part_003 61 and App.tsx 92.
isBlank(t) == \A i \in 1..Len(t) : t[i] \in Whitespace

\* A double quote at index k that toggles inString (line 15): prevChar is the
\* character before it, and is empty at startIndex.
togglesString(content, startIndex, k) ==
    content[k] = DQuote /\ (k = startIndex \/ content[k - 1] # Backslash)

\* inString once the loop of extractBlock has passed line 17 at index i.
inStringAt(content, startIndex, i) ==
    Cardinality({k \in startIndex..i : togglesString(content, startIndex, k)}) % 2 = 1

\* braceCount once the loop has passed line 22 at index i.
braceCountAt(content, startIndex, i) ==
    Cardinality({k \in startIndex..i :
                    content[k] = LBrace /\ ~inStringAt(content, startIndex, k)})
    - Cardinality({k \in startIndex..i :
                      content[k] = RBrace /\ ~inStringAt(content, startIndex, k)})

\* The test of line 23 holds at index i.
closesBlock(content, startIndex, i) ==
    /\ content[i] = RBrace
    /\ ~inStringAt(content, startIndex, i)
    /\ braceCountAt(content, startIndex, i) = 0

\* The index at which the loop of extractBlock returns, 0 when it runs to the
\* end of the text.
scanBlock(content, startIndex) ==
    IF \E i \in startIndex..Len(content) : closesBlock(content, startIndex, i)
    THEN CHOOSE i \in startIndex..Len(content) :
             /\ closesBlock(content, startIndex, i)
             /\ \A j \in startIndex..(i - 1) : ~closesBlock(content, startIndex, j)
    ELSE 0

\* extractBlock with the open body cut short instead of running to the end.
extractBlock_dropOpenBody(content, startIndex) ==
    IF scanBlock(content, startIndex) # 0
    THEN SubSeq(content, startIndex, scanBlock(content, startIndex))
    ELSE <<>>

extractBlock(content, startIndex) ==
    IF scanBlock(content, startIndex) # 0
    THEN SubSeq(content, startIndex, scanBlock(content, startIndex))
    ELSE SubSeq(content, startIndex, Len(content))

\* The indexes of the line breaks of a body, in order.
lineBreaks(body) == SelectSeq([i \in 1..Len(body) |-> i], LAMBDA i : body[i] = Newline)

\* body.split('\n')
splitLines(body) ==
    [k \in 1..(Len(lineBreaks(body)) + 1) |->
        SubSeq(body,
               IF k = 1 THEN 1 ELSE lineBreaks(body)[k - 1] + 1,
               IF k = Len(lineBreaks(body)) + 1 THEN Len(body) ELSE lineBreaks(body)[k] - 1)]

countOf(line, char) == Cardinality({i \in 1..Len(line) : line[i] = char})

\* The braces found on the first n lines: one pair <<line, column>> each.
bracesUpTo(lines, n, char) ==
    UNION {{<<j, i>> : i \in {c \in 1..Len(lines[j]) : lines[j][c] = char}} : j \in 1..n}

\* nestedDepth once the loop of extractProperties has passed line 44 for the
\* n-th line (a line skipped at line 42 holds no brace).
nestedDepthAt(lines, n) ==
    Cardinality(bracesUpTo(lines, n, LBrace)) - Cardinality(bracesUpTo(lines, n, RBrace))

\* The n-th line passes lines 42, 46 and 48: it is not blank, nestedDepth is
\* at most 1 and propertyRegex matches.
matchesProperty(lines, n) ==
    /\ ~isBlank(lines[n])
    /\ nestedDepthAt(lines, n) <= 1
    /\ lines[n][1] \in PropTokens

\* The keys pushed by the loop of extractProperties: those of the matching
\* lines, a key already in props being left out (line 50).
propsOf(lines) ==
    LET pushed == SelectSeq([n \in 1..Len(lines) |-> n],
                     LAMBDA n : /\ matchesProperty(lines, n)
                                /\ \A j \in 1..(n - 1) :
                                       ~(/\ matchesProperty(lines, j)
                                         /\ propKey(lines[j][1]) = propKey(lines[n][1])))
    IN  [k \in 1..Len(pushed) |-> propKey(lines[pushed[k]][1])]

extractProperties(body) ==
    CHOOSE props \in {propsOf(lines) : lines \in {splitLines(body)}} : TRUE

\* BicepResourceMapper.getMapping: the catalog title and canonical service
\* name of a declared type, None for a type the catalog does not know.
getMapping(resourceType) ==
    IF resourceType = "Microsoft.Web/sites"
    THEN [iconTitle |-> "App Services", serviceName |-> "App Services"]
    ELSE [iconTitle |-> None, serviceName |-> None]

\* resourceRegex.exec: the index of the first match after lastIndex, 0 when
\* there is none.
execFrom(t, last) ==
    IF \E i \in (last + 1)..Len(t) : t[i] \in DeclTokens
    THEN CHOOSE i \in (last + 1)..Len(t) :
             t[i] \in DeclTokens /\ \A j \in (last + 1)..(i - 1) : t[j] \notin DeclTokens
    ELSE 0

\* template.indexOf('{', match.index), 0 for -1.
indexOfBrace(t, from) ==
    IF \E i \in from..Len(t) : t[i] = LBrace
    THEN CHOOSE i \in from..Len(t) :
             t[i] = LBrace /\ \A j \in from..(i - 1) : t[j] # LBrace
    ELSE 0

\* The text `resource <identifier> '<decoratedType>' = ` of part_003 77: the
\* declaration written out again from what was captured, and the " = ".
declarationOf(tok) == << IF tok = "D3" THEN "D3r" ELSE tok, "=" >>

\* The snippet pushed for the match at index m, given its body.
snippetOf(t, m, body) ==
    [name |-> declIdentifier(t[m]),
     type |-> splitAt(t[m])[1],
     apiVersion |-> IF Len(splitAt(t[m])) >= 2 THEN splitAt(t[m])[2] ELSE None,
     fullText |-> declarationOf(t[m]) \o body,
     body |-> body,
     properties |-> extractProperties(body),
     iconTitle |-> getMapping(splitAt(t[m])[1]).iconTitle,
     serviceName |-> getMapping(splitAt(t[m])[1]).serviceName]

\* The while loop of parseBicepResources from lastIndex on, with the snippets
\* pushed so far.
RECURSIVE execLoop(_, _, _)
execLoop(t, last, acc) ==
    LET m == execFrom(t, last)
        blockStart == indexOfBrace(t, m)
    IN  IF m = 0 THEN acc
        ELSE IF blockStart = 0 THEN execLoop(t, m, acc)
        ELSE execLoop(t, m, Append(acc, snippetOf(t, m, extractBlock(t, blockStart))))

\* parseBicepResources(t), the regex being at index last when it is called.
parseBicepResources(t, last) == IF isBlank(t) THEN <<>> ELSE execLoop(t, last, <<>>)

(***************************************************************************)
(* The IaC store (useIacStore, App.tsx 64-183).                            *)
(***************************************************************************)
\* String.prototype.toLowerCase on the titles and types of the model.
toLowerCase(s) ==
    CASE s = "App Services" -> "app services"
      [] s = "Microsoft.Web/sites" -> "microsoft.web/sites"
      [] s = "Contoso.Custom/widgets" -> "contoso.custom/widgets"
      [] OTHER -> s

\* normalizeKey: an absent value counts as the empty string; none of the
\* titles and types of the model has blanks around it for trim to remove.
normalizeKey(value) == IF value = None THEN "" ELSE toLowerCase(value)

\* map[key].push(resource), the list created on first use.
pushUnder(map, key, resource) ==
    [k \in DOMAIN map \cup {key} |->
        IF k = key
        THEN (IF key \in DOMAIN map THEN Append(map[key], resource) ELSE <<resource>>)
        ELSE map[k]]

RECURSIVE pushAll(_, _, _)
pushAll(map, keys, resource) ==
    IF keys = <<>> THEN map
    ELSE pushAll(pushUnder(map, Head(keys), resource), Tail(keys), resource)

\* The keys a resource is filed under: its title and its service name, or its
\* type when it has neither.
keysOf(resource) ==
    LET tagged == SelectSeq(<<normalizeKey(resource.iconTitle),
                              normalizeKey(resource.serviceName)>>,
                            LAMBDA k : k # "")
    IN  SelectSeq(IF tagged = <<>> THEN <<normalizeKey(resource.type)>> ELSE tagged,
                  LAMBDA k : k # "")

RECURSIVE buildFrom(_, _)
buildFrom(map, rs) ==
    IF rs = <<>> THEN map
    ELSE buildFrom(pushAll(map, keysOf(Head(rs)), Head(rs)), Tail(rs))

buildResourceMap(rs) == buildFrom(<<>>, rs)

\* setBicepTemplate that keeps the parsed resources of a blank template's
\* predecessor.
setBicepTemplate_keepMap(t, last, store) ==
    IF isBlank(t)
    THEN [currentBicepTemplate |-> "null",
          bicepResourcesByService |-> store.bicepResourcesByService,
          pendingBicepTemplateUpdate |-> "null"]
    ELSE [currentBicepTemplate |-> t,
          bicepResourcesByService |-> buildResourceMap(parseBicepResources(t, last)),
          pendingBicepTemplateUpdate |-> "null"]

\* The store after setBicepTemplate(t), the regex being at index last.
setBicepTemplate(t, last, store) ==
    IF isBlank(t)
    THEN [currentBicepTemplate |-> "null",
          bicepResourcesByService |-> <<>>,
          pendingBicepTemplateUpdate |-> "null"]
    ELSE [currentBicepTemplate |-> t,
          bicepResourcesByService |-> buildResourceMap(parseBicepResources(t, last)),
          pendingBicepTemplateUpdate |-> "null"]

\* a === b on values that are a text or null.
sameText(a, b) ==
    IF a = "null" THEN b = "null" ELSE IF b = "null" THEN FALSE ELSE a = b

\* !s on a text or null: null and the empty text are falsy.
falsy(s) == IF s = "null" THEN TRUE ELSE Len(s) = 0

\* !s?.trim() on a text or null.
blankOrNull(s) == IF s = "null" THEN TRUE ELSE isBlank(s)

\* String.prototype.includes, and the index before the first occurrence.
includes(t, s) == \E i \in 0..(Len(t) - Len(s)) : SubSeq(t, i + 1, i + Len(s)) = s

firstAt(t, s) ==
    CHOOSE i \in 0..(Len(t) - Len(s)) :
        /\ SubSeq(t, i + 1, i + Len(s)) = s
        /\ \A j \in 0..(i - 1) : SubSeq(t, j + 1, j + Len(s)) # s

\* t.replace(s, u) for a text s that t includes: the first occurrence only.
\* None of the texts of the model holds a `$`, so u is put in as it is.
replaceFirst(t, s, u) ==
    SubSeq(t, 1, firstAt(t, s)) \o u \o SubSeq(t, firstAt(t, s) + Len(s) + 1, Len(t))

\* Object.values(map).flat().find(resource => resource.name === name), as a
\* list of no or one resource.  A name of the model is filed under one key.
findByName(map, name) ==
    LET holds(k) == {i \in DOMAIN map[k] : map[k][i].name = name}
        keys == {k \in DOMAIN map : holds(k) # {}}
    IN  IF keys = {} THEN <<>>
        ELSE LET k == CHOOSE k \in keys : TRUE
                 i == CHOOSE i \in holds(k) : \A j \in holds(k) : i <= j
             IN  <<map[k][i]>>

\* updateBicepResource that leaves the resource map as it was.
updateBicepResource_keepMap(resourceName, previousSnippet, updatedSnippet, last, store) ==
    LET given == IF blankOrNull(previousSnippet) THEN "null" ELSE previousSnippet
        usable(x) == IF x = "null" THEN FALSE ELSE includes(store.currentBicepTemplate, x)
        match == findByName(store.bicepResourcesByService, resourceName)
        targetSnippet == IF usable(given) THEN given
                         ELSE IF match = <<>> THEN "null" ELSE match[1].fullText
        newTemplate == replaceFirst(store.currentBicepTemplate, targetSnippet, updatedSnippet)
    IN  IF falsy(store.currentBicepTemplate) THEN [state |-> store, newTemplate |-> "null"]
        ELSE IF ~usable(targetSnippet) THEN [state |-> store, newTemplate |-> "null"]
        ELSE [state |-> [currentBicepTemplate |-> newTemplate,
                         bicepResourcesByService |-> store.bicepResourcesByService,
                         pendingBicepTemplateUpdate |-> newTemplate],
              newTemplate |-> newTemplate]

\* updateBicepResource(resourceName, previousSnippet, updatedSnippet): the
\* store after the call and the value returned.
updateBicepResource(resourceName, previousSnippet, updatedSnippet, last, store) ==
    LET given == IF blankOrNull(previousSnippet) THEN "null" ELSE previousSnippet
        usable(x) == IF x = "null" THEN FALSE ELSE includes(store.currentBicepTemplate, x)
        match == findByName(store.bicepResourcesByService, resourceName)
        targetSnippet == IF usable(given) THEN given
                         ELSE IF match = <<>> THEN "null" ELSE match[1].fullText
        newTemplate == replaceFirst(store.currentBicepTemplate, targetSnippet, updatedSnippet)
    IN  IF falsy(store.currentBicepTemplate) THEN [state |-> store, newTemplate |-> "null"]
        ELSE IF ~usable(targetSnippet) THEN [state |-> store, newTemplate |-> "null"]
        ELSE [state |-> [currentBicepTemplate |-> newTemplate,
                         bicepResourcesByService |->
                             buildResourceMap(parseBicepResources(newTemplate, last)),
                         pendingBicepTemplateUpdate |-> newTemplate],
              newTemplate |-> newTemplate]

\* The store after applyBicepTemplateEdit(t).
applyBicepTemplateEdit(t, last, store) ==
    IF blankOrNull(t)
    THEN [currentBicepTemplate |-> "null",
          bicepResourcesByService |-> <<>>,
          pendingBicepTemplateUpdate |-> t]
    ELSE [currentBicepTemplate |-> t,
          bicepResourcesByService |-> buildResourceMap(parseBicepResources(t, last)),
          pendingBicepTemplateUpdate |-> t]

\* consumePendingBicepTemplate(): the store after the call and the value
\* returned.
consumePendingBicepTemplate(store) ==
    IF falsy(store.pendingBicepTemplateUpdate)
    THEN [state |-> store, pending |-> "null"]
    ELSE [state |-> [store EXCEPT !.pendingBicepTemplateUpdate = "null"],
          pending |-> store.pendingBicepTemplateUpdate]

\* The store after clear().
clearStore(store) ==
    [currentBicepTemplate |-> "null",
     bicepResourcesByService |-> <<>>,
     pendingBicepTemplateUpdate |-> "null"]

(***************************************************************************)
(* The IaC extractor and store as a state machine.  Three families of      *)
(* templates are written: free token sequences of at most MaxTemplateLen   *)
(* tokens, one declaration followed by a block of at most MaxBlockLen      *)
(* braces, quotes and backslashes, and one declaration whose body is       *)
(* written in at most MaxLines lines.                                      *)
(***************************************************************************)
MaxTemplateLen == 4
MaxBlockLen == 7
MaxLines == 3
MaxCalls == 2

TemplateTokens == DeclTokens \cup {LBrace, RBrace, DQuote, Newline}
BlockTokens == {LBrace, RBrace, DQuote, Backslash}

\* The lines written into a body:
\*     sku: 'S1'            properties: {          tier: 'x'
\*   }                      sku: "}"               sku: "{"
\*     tier: 'x' }
LineKinds ==
    { <<"Pa", "x">>, <<"Pb", LBrace>>, <<"Pc", "x">>,
      <<RBrace>>, <<"Pa", DQuote, RBrace, DQuote>>, <<"Pa", DQuote, LBrace, DQuote>>,
      <<"Pc", "x", RBrace>> }

BlankTemplates == {<<>>, <<Newline>>}

IacInit ==
    /\ gen \in {"tokens", "block", "lines"}
    /\ template = CASE gen = "tokens" -> <<>>
                    [] gen = "block" -> <<"D1", LBrace>>
                    [] gen = "lines" -> <<"D1", "=", LBrace>>
    /\ lastIndex = 0
    /\ resources = <<>>
    /\ bpc = "edit"
    /\ currentBicepTemplate = "null"
    /\ bicepResourcesByService = <<>>
    /\ pendingBicepTemplateUpdate = "null"
    /\ storeCall = [op |-> "none"]
    /\ calls = 0

\* The count of returned calls, kept up to MaxCalls.
returned(n) == IF n < MaxCalls THEN n + 1 ELSE n

storeVars == <<currentBicepTemplate, bicepResourcesByService, pendingBicepTemplateUpdate,
               storeCall>>

AppendToken(tok) ==
    /\ bpc = "edit" /\ gen = "tokens"
    /\ Len(template) < MaxTemplateLen
    /\ template' = Append(template, tok)
    /\ UNCHANGED <<gen, lastIndex, resources, bpc, calls, storeVars, normVars, nodeVars, textVars, appVars>>

AppendBlockToken(tok) ==
    /\ bpc = "edit" /\ gen = "block"
    /\ Len(template) < MaxBlockLen + 1
    /\ template' = Append(template, tok)
    /\ UNCHANGED <<gen, lastIndex, resources, bpc, calls, storeVars, normVars, nodeVars, textVars, appVars>>

AppendLine(line) ==
    /\ bpc = "edit" /\ gen = "lines"
    /\ countOf(template, Newline) < MaxLines
    /\ template' = template \o <<Newline>> \o line
    /\ UNCHANGED <<gen, lastIndex, resources, bpc, calls, storeVars, normVars, nodeVars, textVars, appVars>>

\* parseBicepResources(template) up to its loop.
ParseCall ==
    /\ bpc = "edit"
    /\ resources' = <<>>
    /\ bpc' = IF isBlank(template) THEN "done" ELSE "scan"
    /\ calls' = IF isBlank(template) THEN returned(calls) ELSE calls
    /\ UNCHANGED <<gen, template, lastIndex, storeVars, normVars, nodeVars, textVars, appVars>>

\* ExecStep with the snippet put in front of the list.
ExecStep_unshift ==
    /\ bpc = "scan"
    /\ \E m \in {execFrom(template, lastIndex)} :
           IF m = 0
           THEN /\ lastIndex' = 0
                /\ bpc' = "done"
                /\ calls' = returned(calls)
                /\ UNCHANGED resources
           ELSE /\ lastIndex' = m
                /\ bpc' = "scan"
                /\ UNCHANGED calls
                /\ \E blockStart \in {indexOfBrace(template, m)} :
                   IF blockStart = 0 THEN UNCHANGED resources
                   ELSE \E body \in {extractBlock(template, blockStart)} :
                            resources' = <<snippetOf(template, m, body)>> \o resources
    /\ UNCHANGED <<gen, template, storeVars, normVars, nodeVars, textVars, appVars>>

\* ExecStep with a snippet for every match, its body empty when no brace
\* follows.
ExecStep_noSkip ==
    /\ bpc = "scan"
    /\ \E m \in {execFrom(template, lastIndex)} :
           IF m = 0
           THEN /\ lastIndex' = 0
                /\ bpc' = "done"
                /\ calls' = returned(calls)
                /\ UNCHANGED resources
           ELSE /\ lastIndex' = m
                /\ bpc' = "scan"
                /\ UNCHANGED calls
                /\ \E blockStart \in {indexOfBrace(template, m)} :
                   \E body \in {IF blockStart = 0 THEN <<>>
                                ELSE extractBlock(template, blockStart)} :
                       resources' = Append(resources, snippetOf(template, m, body))
    /\ UNCHANGED <<gen, template, storeVars, normVars, nodeVars, textVars, appVars>>

\* ExecStep returning at a declaration with no brace after it, the scan
\* position left where the match ended.
ExecStep_returnOnSkip ==
    /\ bpc = "scan"
    /\ \E m \in {execFrom(template, lastIndex)} :
           IF m = 0
           THEN /\ lastIndex' = 0
                /\ bpc' = "done"
                /\ calls' = returned(calls)
                /\ UNCHANGED resources
           ELSE /\ lastIndex' = m
                /\ \E blockStart \in {indexOfBrace(template, m)} :
                   IF blockStart = 0
                   THEN /\ bpc' = "done"
                        /\ calls' = returned(calls)
                        /\ UNCHANGED resources
                   ELSE /\ bpc' = "scan"
                        /\ UNCHANGED calls
                        /\ \E body \in {extractBlock(template, blockStart)} :
                               resources' = Append(resources, snippetOf(template, m, body))
    /\ UNCHANGED <<gen, template, storeVars, normVars, nodeVars, textVars, appVars>>

\* One evaluation of the loop condition, and the loop body when it holds.
ExecStep ==
    /\ bpc = "scan"
    /\ \E m \in {execFrom(template, lastIndex)} :
           IF m = 0
           THEN /\ lastIndex' = 0
                /\ bpc' = "done"
                /\ calls' = returned(calls)
                /\ UNCHANGED resources
           ELSE /\ lastIndex' = m
                /\ bpc' = "scan"
                /\ UNCHANGED calls
                /\ \E blockStart \in {indexOfBrace(template, m)} :
                   IF blockStart = 0 THEN UNCHANGED resources
                   ELSE \E body \in {extractBlock(template, blockStart)} :
                            resources' = Append(resources, snippetOf(template, m, body))
    /\ UNCHANGED <<gen, template, storeVars, normVars, nodeVars, textVars, appVars>>

\* useIacStore.getState().setBicepTemplate(t), for the template parsed or a
\* blank one.
SetBicepTemplate(t) ==
    /\ bpc \in {"done", "stored"}
    /\ LET store == [currentBicepTemplate |-> currentBicepTemplate,
                     bicepResourcesByService |-> bicepResourcesByService,
                     pendingBicepTemplateUpdate |-> pendingBicepTemplateUpdate]
           after == setBicepTemplate(t, lastIndex, store)
       IN  /\ currentBicepTemplate' = after.currentBicepTemplate
           /\ bicepResourcesByService' = after.bicepResourcesByService
           /\ pendingBicepTemplateUpdate' = after.pendingBicepTemplateUpdate
    /\ storeCall' = [op |-> "setBicepTemplate", template |-> t,
                     hadTemplate |-> currentBicepTemplate # "null"]
    /\ bpc' = "stored"
    /\ calls' = returned(calls)
    /\ UNCHANGED <<gen, template, lastIndex, resources, normVars, nodeVars, textVars, appVars>>

IacNext ==
    \/ \E tok \in TemplateTokens : AppendToken(tok)
    \/ \E tok \in BlockTokens : AppendBlockToken(tok)
    \/ \E line \in LineKinds : AppendLine(line)
    \/ ParseCall
    \/ ExecStep
    \/ \E t \in {template} \cup BlankTemplates : SetBicepTemplate(t)

IacStart == IacInit /\ NormIdle /\ NodesIdle /\ TextIdle /\ AppIdle

SpecIac == IacStart /\ [][IacNext]_vars

\* The loop of parseBicepResources is not abandoned half way.
SpecIacFair == SpecIac /\ WF_vars(ExecStep)

\* The caller takes the result and turns to another template; the module,
\* and with it resourceRegex (part_003 line 4), lives on.
NextCall ==
    /\ bpc = "done" /\ gen = "tokens"
    /\ calls < MaxCalls
    /\ template' = <<>>
    /\ resources' = <<>>
    /\ bpc' = "edit"
    /\ UNCHANGED <<gen, lastIndex, calls, storeVars, normVars, nodeVars, textVars, appVars>>

IacCallsNext ==
    \/ \E tok \in TemplateTokens : AppendToken(tok)
    \/ ParseCall
    \/ ExecStep
    \/ NextCall

IacCallsStart == IacStart /\ gen = "tokens"

\* Calls of parseBicepResources one after the other within one module.
SpecIacCalls == IacCallsStart /\ [][IacCallsNext]_vars


(***************************************************************************)
(* The name resolver and the text pattern extractor.                       *)
(*                                                                         *)
(* The alias table, the relationship templates and the connection patterns *)
(* are those of the source tree; findAzureServiceByName and the synthesis  *)
(* of connections from the templates belong to ArchitectureParser and are  *)
(* modelled from sections 4.1 and 4.2 of the specification.                *)
(***************************************************************************)
\* A string is written as its lower-case form, how its letters are cased
\* ("lower", "mixed" as in the source, "upper") and the blanks around it.
Str(folded, casing, pad) == [folded |-> folded, casing |-> casing, pad |-> pad]

Casings == {"lower", "mixed", "upper"}
Pads == {"none", "leading", "trailing", "both"}

\* String.prototype.trim and String.prototype.toLowerCase.
trim(s) == [s EXCEPT !.pad = "none"]
lowerCase(s) == [s EXCEPT !.casing = "lower"]

\* SERVICE_TO_ICON_MAPPINGS: <<key in lower case, casing of the key, title>>.
AliasRows ==
    {
        <<"app service", "lower", "App Services">>,
        <<"web app", "lower", "App Services">>,
        <<"azure app service", "lower", "App Services">>,
        <<"webapp", "mixed", "App Services">>,
        <<"microsoft.web/sites", "mixed", "App Services">>,
        <<"cosmos db", "lower", "Azure Cosmos Db">>,
        <<"azure cosmos db", "lower", "Azure Cosmos Db">>,
        <<"cosmosdb", "lower", "Azure Cosmos Db">>,
        <<"cosmos", "lower", "Azure Cosmos Db">>,
        <<"microsoft.documentdb/databaseaccounts", "mixed", "Azure Cosmos Db">>,
        <<"sql database", "lower", "SQL Database">>,
        <<"azure sql", "lower", "SQL Database">>,
        <<"azure sql database", "lower", "SQL Database">>,
        <<"microsoft.sql/servers", "mixed", "SQL Server">>,
        <<"microsoft.sql/servers/databases", "mixed", "SQL Database">>,
        <<"storage account", "lower", "Storage Accounts">>,
        <<"storage accounts", "lower", "Storage Accounts">>,
        <<"azure storage", "lower", "Storage Accounts">>,
        <<"blob storage", "lower", "Storage Accounts">>,
        <<"azure blob storage", "lower", "Storage Accounts">>,
        <<"microsoft.storage/storageaccounts", "mixed", "Storage Accounts">>,
        <<"function app", "lower", "Function Apps">>,
        <<"azure functions", "lower", "Function Apps">>,
        <<"functions", "lower", "Function Apps">>,
        <<"function apps", "lower", "Function Apps">>,
        <<"microsoft.web/sites/functions", "mixed", "Function Apps">>,
        <<"application gateway", "lower", "Application Gateways">>,
        <<"azure application gateway", "lower", "Application Gateways">>,
        <<"microsoft.network/applicationgateways", "mixed", "Application Gateways">>,
        <<"virtual network", "lower", "Virtual Networks">>,
        <<"vnet", "lower", "Virtual Networks">>,
        <<"azure vnet", "lower", "Virtual Networks">>,
        <<"microsoft.network/virtualnetworks", "mixed", "Virtual Networks">>,
        <<"subnet", "lower", "Subnet">>,
        <<"network security group", "lower", "Network Security Group">>,
        <<"nsg", "lower", "Network Security Group">>,
        <<"landing zone", "lower", "Landing Zone">>,
        <<"landing-zone", "lower", "Landing Zone">>,
        <<"management group", "lower", "Management Groups">>,
        <<"management groups", "lower", "Management Groups">>,
        <<"subscription", "lower", "Subscriptions">>,
        <<"subscriptions", "lower", "Subscriptions">>,
        <<"policy assignment", "lower", "Policy">>,
        <<"policy definition", "lower", "Policy">>,
        <<"policy", "lower", "Policy">>,
        <<"role assignment", "lower", "Entra Identity Roles And Administrators">>,
        <<"rbac", "lower", "Entra Identity Roles And Administrators">>,
        <<"event hubs", "lower", "Event Hubs">>,
        <<"event hub", "lower", "Event Hubs">>,
        <<"azure event hub", "lower", "Event Hubs">>,
        <<"azure event hubs", "lower", "Event Hubs">>,
        <<"stream analytics", "lower", "Stream Analytics Jobs">>,
        <<"azure stream analytics", "lower", "Stream Analytics Jobs">>,
        <<"stream analytics jobs", "lower", "Stream Analytics Jobs">>,
        <<"synapse", "lower", "Azure Synapse Analytics">>,
        <<"azure synapse analytics", "lower", "Azure Synapse Analytics">>,
        <<"synapse workspace", "lower", "Azure Synapse Analytics">>,
        <<"power bi", "lower", "Power BI">>,
        <<"managed identity", "lower", "Managed Identities">>,
        <<"managed identities", "lower", "Managed Identities">>,
        <<"key vault", "lower", "Key Vaults">>,
        <<"azure key vault", "lower", "Key Vaults">>,
        <<"microsoft.keyvault/vaults", "mixed", "Key Vaults">>,
        <<"service bus", "lower", "Service Bus">>,
        <<"azure service bus", "lower", "Service Bus">>,
        <<"microsoft.servicebus/namespaces", "mixed", "Service Bus">>,
        <<"redis cache", "lower", "Cache Redis">>,
        <<"cache redis", "lower", "Cache Redis">>,
        <<"azure cache for redis", "lower", "Cache Redis">>,
        <<"microsoft.cache/redis", "mixed", "Cache Redis">>,
        <<"event grid", "lower", "Event Grid Topics">>,
        <<"azure event grid", "lower", "Event Grid Topics">>,
        <<"microsoft.eventgrid/topics", "mixed", "Event Grid Topics">>,
        <<"api management", "lower", "API Management Services">>,
        <<"azure api management", "lower", "API Management Services">>,
        <<"microsoft.apimanagement/service", "mixed", "API Management Services">>,
        <<"container registry", "lower", "Container Registries">>,
        <<"azure container registry", "lower", "Container Registries">>,
        <<"microsoft.containerregistry/registries", "mixed", "Container Registries">>,
        <<"kubernetes service", "lower", "Kubernetes Services">>,
        <<"aks", "lower", "Kubernetes Services">>,
        <<"azure kubernetes service", "lower", "Kubernetes Services">>,
        <<"microsoft.containerservice/managedclusters", "mixed", "Kubernetes Services">>,
        <<"resource group", "lower", "Resource Groups">>,
        <<"resource groups", "lower", "Resource Groups">>,
        <<"microsoft.resources/resourcegroups", "mixed", "Resource Groups">>,
        <<"app service plan", "lower", "App Service Plans">>,
        <<"service plan", "lower", "App Service Plans">>,
        <<"microsoft.web/serverfarms", "mixed", "App Service Plans">>,
        <<"data factory", "lower", "Data Factories">>,
        <<"azure data factory", "lower", "Data Factories">>,
        <<"data factories", "lower", "Data Factories">>,
        <<"data lake storage", "lower", "Data Lake Store Gen1">>,
        <<"azure data lake storage", "lower", "Data Lake Store Gen1">>,
        <<"data lake store", "lower", "Data Lake Store Gen1">>,
        <<"microsoft.web/sites", "lower", "App Services">>,
        <<"microsoft.documentdb/databaseaccounts", "lower", "Azure Cosmos Db">>,
        <<"microsoft.web/serverfarms", "lower", "App Service Plans">>
    }

SERVICE_TO_ICON_MAPPINGS == {[key |-> Str(r[1], r[2], "none"), title |-> r[3]] : r \in AliasRows}

\* The catalog titles the alias table maps to, with their lower-case forms.
TitleRows ==
    {
        <<"API Management Services", "api management services">>,
        <<"App Service Plans", "app service plans">>,
        <<"App Services", "app services">>,
        <<"Application Gateways", "application gateways">>,
        <<"Azure Cosmos Db", "azure cosmos db">>,
        <<"Azure Synapse Analytics", "azure synapse analytics">>,
        <<"Cache Redis", "cache redis">>,
        <<"Container Registries", "container registries">>,
        <<"Data Factories", "data factories">>,
        <<"Data Lake Store Gen1", "data lake store gen1">>,
        <<"Entra Identity Roles And Administrators", "entra identity roles and administrators">>,
        <<"Event Grid Topics", "event grid topics">>,
        <<"Event Hubs", "event hubs">>,
        <<"Function Apps", "function apps">>,
        <<"Key Vaults", "key vaults">>,
        <<"Kubernetes Services", "kubernetes services">>,
        <<"Landing Zone", "landing zone">>,
        <<"Managed Identities", "managed identities">>,
        <<"Management Groups", "management groups">>,
        <<"Network Security Group", "network security group">>,
        <<"Policy", "policy">>,
        <<"Power BI", "power bi">>,
        <<"Resource Groups", "resource groups">>,
        <<"SQL Database", "sql database">>,
        <<"SQL Server", "sql server">>,
        <<"Service Bus", "service bus">>,
        <<"Storage Accounts", "storage accounts">>,
        <<"Stream Analytics Jobs", "stream analytics jobs">>,
        <<"Subnet", "subnet">>,
        <<"Subscriptions", "subscriptions">>,
        <<"Virtual Networks", "virtual networks">>
    }

Catalog == {[title |-> r[1], folded |-> r[2]] : r \in TitleRows}

NoMatch == [title |-> "no match", folded |-> ""]

catalogEntry(title) ==
    IF \E e \in Catalog : e.title = title
    THEN CHOOSE e \in Catalog : e.title = title
    ELSE NoMatch

\* The alias lookup with the normalized phrase used as the key of the table.
aliasTitles_byKey(name) ==
    {a.title : a \in {b \in SERVICE_TO_ICON_MAPPINGS : b.key = lowerCase(trim(name))}}

\* (a) the titles of the aliases equal to the phrase, letter case and
\* surrounding blanks set aside.
aliasTitles(name) ==
    {a.title : a \in {b \in SERVICE_TO_ICON_MAPPINGS :
                          lowerCase(trim(b.key)) = lowerCase(trim(name))}}

\* (b) the catalog entries whose own title equals the phrase, letter case set
\* aside.
titleMatches(name) == {e \in Catalog : e.folded = lowerCase(trim(name)).folded}

\* findAzureServiceByName: alias match first, then title match; the
\* substring fallback (c) is not reached by a phrase that equals a key or a
\* title and is left out.
findAzureServiceByName(name) ==
    IF aliasTitles(name) # {}
    THEN [how |-> "alias", entry |-> catalogEntry(CHOOSE t \in aliasTitles(name) : TRUE)]
    ELSE IF titleMatches(name) # {}
    THEN [how |-> "title", entry |-> CHOOSE e \in titleMatches(name) : TRUE]
    ELSE [how |-> "none", entry |-> NoMatch]

\* The relationship templates (patterns.ts 1-92).
patterns ==
    {
        [from |-> {"app services", "app service"},
         to |-> {"azure cosmos db", "sql database", "mysql", "postgresql"},
         label |-> "data access"],
        [from |-> {"policy"},
         to |-> {"subscriptions", "management groups", "landing zone"},
         label |-> "policy scope"],
        [from |-> {"entra identity roles and administrators"},
         to |-> {"subscriptions", "resource groups", "landing zone"},
         label |-> "rbac"],
        [from |-> {"app services"},
         to |-> {"app service plans"},
         label |-> "hosted on"],
        [from |-> {"app services", "function app", "azure cosmos db"},
         to |-> {"key vaults"},
         label |-> "secrets"],
        [from |-> {"function app"},
         to |-> {"storage accounts"},
         label |-> "runtime storage"],
        [from |-> {"api management services"},
         to |-> {"app services", "function app"},
         label |-> "api gateway"],
        [from |-> {"application gateways"},
         to |-> {"app services"},
         label |-> "load balancer"],
        [from |-> {"management groups"},
         to |-> {"subscriptions"},
         label |-> "scope"],
        [from |-> {"subscriptions"},
         to |-> {"landing zone", "resource groups"},
         label |-> "contains"],
        [from |-> {"landing zone"},
         to |-> {"virtual networks", "virtual network", "subnet"},
         label |-> "network"],
        [from |-> {"event hubs", "event hub", "azure event hub", "azure iot hub", "iot hub"},
         to |-> {"stream analytics jobs", "stream analytics"},
         label |-> "stream input"],
        [from |-> {"stream analytics jobs", "stream analytics"},
         to |-> {"azure synapse analytics", "synapse workspace"},
         label |-> "analytics sink"],
        [from |-> {"stream analytics jobs", "stream analytics"},
         to |-> {"power bi"},
         label |-> "visualization"],
        [from |-> {"managed identities", "managed identity"},
         to |-> {"stream analytics jobs", "stream analytics", "azure synapse analytics"},
         label |-> "identity"]
    }

\* The names the templates speak of, and two services they do not mention.
ServiceNames ==
    UNION {p.from \cup p.to : p \in patterns} \cup {"cache redis", "service bus"}

\* The connections synthesized from the templates with every to-name taken
\* as an endpoint, present or not.
synthesizeConnections_anyTarget(services) ==
    {[from |-> f, to |-> t, label |-> p.label] :
        <<p, f, t>> \in {<<q, g, u>> \in patterns \X services \X ServiceNames :
                            g \in q.from /\ u \in q.to}}

\* The connections synthesized from the templates: one per template and pair
\* of extracted services matching a from-name and a to-name of it.
synthesizeConnections(services) ==
    {[from |-> f, to |-> t, label |-> p.label] :
        <<p, f, t>> \in {<<q, g, u>> \in patterns \X services \X services :
                            g \in q.from /\ u \in q.to}}

(***************************************************************************)
(* The arrow pattern of connectionPatterns (patterns.ts 98), applied to a  *)
(* text given as a sequence of characters: a run of words, blanks, one of  *)
(* the arrows  <-->  ->  U+2192, blanks, a run of words.                   *)
(***************************************************************************)
WordChars == {"X", "Y"}
Blank == " "

\* The pieces texts are written from, and the characters of each.
Pieces == {"X", "Y", Blank, "-->", "->", "U+2192", "<-->"}

pieceChars(piece) ==
    CASE piece = "-->" -> <<"-", "-", ">">>
      [] piece = "->" -> <<"-", ">">>
      [] piece = "<-->" -> <<"<", "-", "-", ">">>
      [] OTHER -> <<piece>>

charsOf(pieces) == Flatten([i \in 1..Len(pieces) |-> pieceChars(pieces[i])])

\* Index of the last character of the longest stretch of word characters and
\* blanks that starts at s.
stretchEnd(t, s) ==
    CHOOSE e \in s..Len(t) :
        /\ \A j \in s..e : t[j] \in WordChars \cup {Blank}
        /\ (e = Len(t) \/ t[e + 1] \notin WordChars \cup {Blank})

\* Where a group (words separated by blanks) ends when it starts at the word
\* character s and the blanks after it have to be followed by a character
\* that is neither: at the last word character of the stretch.
wordsEnd(t, s) ==
    CHOOSE j \in s..stretchEnd(t, s) :
        t[j] \in WordChars /\ \A k \in (j + 1)..stretchEnd(t, s) : t[k] \notin WordChars

\* The length of the arrow alternative that matches at index k, in the order
\* the pattern tries them, 0 when none does.
arrowAt(t, k) ==
    IF k + 3 <= Len(t) /\ SubSeq(t, k, k + 3) = <<"<", "-", "-", ">">> THEN 4
    ELSE IF k + 1 <= Len(t) /\ SubSeq(t, k, k + 1) = <<"-", ">">> THEN 2
    ELSE IF k <= Len(t) /\ t[k] = "U+2192" THEN 1
    ELSE 0

\* Index of the first character at or after k that is no blank.
skipBlanks(t, k) ==
    IF \E g \in k..Len(t) : t[g] # Blank
    THEN CHOOSE g \in k..Len(t) : t[g] # Blank /\ \A j \in k..(g - 1) : t[j] = Blank
    ELSE Len(t) + 1

\* Where the second group starts for a match that starts at s.
secondGroupAt(t, s) ==
    skipBlanks(t, stretchEnd(t, s) + 1 + arrowAt(t, stretchEnd(t, s) + 1))

\* The pattern matches with its first group starting at s.
matchesArrowAt(t, s) ==
    /\ t[s] \in WordChars
    /\ arrowAt(t, stretchEnd(t, s) + 1) > 0
    /\ secondGroupAt(t, s) <= Len(t)
    /\ t[secondGroupAt(t, s)] \in WordChars

NoCandidate == [from |-> <<>>, to |-> <<>>]

\* The two groups of the first match of the pattern in t, NoCandidate when it
\* does not match.
execArrow(t) ==
    IF \E s \in 1..Len(t) : matchesArrowAt(t, s)
    THEN LET s == CHOOSE i \in 1..Len(t) :
                      matchesArrowAt(t, i) /\ \A j \in 1..(i - 1) : ~matchesArrowAt(t, j)
         IN  [from |-> SubSeq(t, s, wordsEnd(t, s)),
              to |-> SubSeq(t, secondGroupAt(t, s), wordsEnd(t, secondGroupAt(t, s)))]
    ELSE NoCandidate

(***************************************************************************)
(* The resolver and the extractor as a state machine: a phrase is          *)
(* resolved, a text is written piece by piece and scanned for arrows, or a *)
(* set of services is extracted and connections are synthesized for it.    *)
(***************************************************************************)
MaxTextLen == 5
MaxExtracted == 3

\* The phrases resolved: every key of the alias table and every catalog
\* title, in each letter case and with blanks around it.
Phrases ==
    {Str(f, c, p) : f \in {a.key.folded : a \in SERVICE_TO_ICON_MAPPINGS}
                          \cup {e.folded : e \in Catalog},
                    c \in Casings, p \in Pads}

TextInit ==
    /\ phrase = None
    /\ found = [how |-> "notTaken"]
    /\ text = <<>>
    /\ candidate = NoCandidate
    /\ extracted = {}
    /\ synthesized = {}
    /\ tpc = "write"

Resolve(p) ==
    /\ tpc = "write" /\ text = <<>> /\ extracted = {}
    /\ phrase' = p
    /\ found' = findAzureServiceByName(p)
    /\ tpc' = "resolved"
    /\ UNCHANGED <<text, candidate, extracted, synthesized, normVars, nodeVars, iacVars, appVars>>

AppendPiece(piece) ==
    /\ tpc = "write" /\ extracted = {}
    /\ Len(text) < MaxTextLen
    /\ text' = Append(text, piece)
    /\ UNCHANGED <<phrase, found, candidate, extracted, synthesized, tpc,
                   normVars, nodeVars, iacVars, appVars>>

ScanArrows ==
    /\ tpc = "write" /\ text # <<>>
    /\ candidate' = execArrow(charsOf(text))
    /\ tpc' = "scanned"
    /\ UNCHANGED <<phrase, found, text, extracted, synthesized, normVars, nodeVars, iacVars, appVars>>

ExtractService(name) ==
    /\ tpc = "write" /\ text = <<>>
    /\ Cardinality(extracted) < MaxExtracted
    /\ name \notin extracted
    /\ extracted' = extracted \cup {name}
    /\ UNCHANGED <<phrase, found, text, candidate, synthesized, tpc,
                   normVars, nodeVars, iacVars, appVars>>

Synthesize ==
    /\ tpc = "write" /\ extracted # {}
    /\ synthesized' = synthesizeConnections(extracted)
    /\ tpc' = "synthesized"
    /\ UNCHANGED <<phrase, found, text, candidate, extracted, normVars, nodeVars, iacVars, appVars>>

ResolverNext == \E p \in Phrases : Resolve(p)

ArrowNext ==
    \/ \E piece \in Pieces : AppendPiece(piece)
    \/ ScanArrows

SynthesisNext ==
    \/ \E name \in ServiceNames : ExtractService(name)
    \/ Synthesize

TextStart == TextInit /\ NormIdle /\ NodesIdle /\ IacIdle /\ AppIdle

SpecResolver == TextStart /\ [][ResolverNext]_vars

SpecArrows == TextStart /\ [][ArrowNext]_vars

SpecSynthesis == TextStart /\ [][SynthesisNext]_vars

(***************************************************************************)
(* Claims C12 to C17: the IaC extractor.                                   *)
(***************************************************************************)
\* The declarations of a template that have an opening brace somewhere after
\* them, in textual order.
RECURSIVE bracedDeclsFrom(_, _)
bracedDeclsFrom(t, i) ==
    IF i > Len(t) THEN <<>>
    ELSE IF t[i] \in DeclTokens /\ indexOfBrace(t, i) # 0
         THEN <<i>> \o bracedDeclsFrom(t, i + 1)
         ELSE bracedDeclsFrom(t, i + 1)

bracedDecls(t) == bracedDeclsFrom(t, 1)

\* The closing brace matching the brace at index i, for a reader of string
\* literals: a double quote is escaped when an odd number of backslashes
\* stands right before it, and braces between an opening and a closing quote
\* do not count.  0 when the brace is never closed.
RECURSIVE matchFrom(_, _, _, _, _)
matchFrom(content, i, depth, inLiteral, slashes) ==
    IF i > Len(content) THEN 0
    ELSE LET char == content[i]
             lit == IF char = DQuote /\ slashes % 2 = 0 THEN ~inLiteral ELSE inLiteral
             d == IF lit THEN depth
                  ELSE IF char = LBrace THEN depth + 1
                  ELSE IF char = RBrace THEN depth - 1
                  ELSE depth
         IN  IF ~lit /\ char = RBrace /\ d = 0 THEN i
             ELSE matchFrom(content, i + 1, d, lit,
                            IF char = Backslash THEN slashes + 1 ELSE 0)

matchingBrace(content, i) == matchFrom(content, i, 0, FALSE, 0)

\* C12: for every resource declaration found by parseBicepResources, the
\* snippet's body is the verbatim text from the declaration's opening brace
\* to its matching closing brace, braces inside double-quoted string literals
\* not being counted.
OrigC12_BodyIsMatchedBlock ==
    bpc = "done" =>
        \A k \in 1..Len(resources) :
            k <= Len(bracedDecls(template)) =>
                LET open == indexOfBrace(template, bracedDecls(template)[k])
                    close == matchingBrace(template, open)
                IN  close # 0 => resources[k].body = SubSeq(template, open, close)

\* The part of C12 the extractor keeps: the same, for templates in which no
\* backslash stands right before another backslash.
NoBackslashRun(t) == \A i \in 1..(Len(t) - 1) : ~(t[i] = Backslash /\ t[i + 1] = Backslash)

C12_HoldsWithoutBackslashRuns ==
    NoBackslashRun(template) => OrigC12_BodyIsMatchedBlock


\* All declarations of a template, in textual order.
allDecls(t) == SelectSeq([i \in 1..Len(t) |-> i], LAMBDA i : t[i] \in DeclTokens)

\* What stands after the first '@' of a declaration's type string, None when
\* the type string has no '@'.
afterFirstAt(tok) ==
    CASE tok = "D1" -> "2022-03-01"
      [] tok = "D2" -> None
      [] tok = "D3" -> "2022-03-01@preview"

\* C13 as stated: one snippet per declaration of the template, in order, with
\* the identifier as name, the type string before '@' as type and what stands
\* after it as apiVersion.
OrigC13_OneSnippetPerDeclaration ==
    bpc = "done" /\ ~isBlank(template) =>
        /\ Len(resources) = Len(allDecls(template))
        /\ \A k \in 1..Len(resources) :
               k <= Len(allDecls(template)) =>
                   LET tok == template[allDecls(template)[k]]
                   IN  /\ resources[k].name = declIdentifier(tok)
                       /\ resources[k].type = splitAt(tok)[1]
                       /\ resources[k].apiVersion = afterFirstAt(tok)

\* C13, amended: parseBicepResources returns one snippet per declaration that
\* has an opening brace somewhere after it, in the order of the template;
\* the snippet carries the identifier as name, the type string up to its
\* first '@' as type, and as apiVersion what stands between the first '@' and
\* the next one or the end of the type string (nothing without an '@').
ThmC13_OneSnippetPerBracedDeclaration ==
    bpc = "done" /\ ~isBlank(template) =>
        /\ Len(resources) = Len(bracedDecls(template))
        /\ \A k \in 1..Len(resources) :
               k <= Len(bracedDecls(template)) =>
                   LET tok == template[bracedDecls(template)[k]]
                   IN  /\ resources[k].name = declIdentifier(tok)
                       /\ resources[k].type = splitAt(tok)[1]
                       /\ resources[k].apiVersion =
                              (IF Len(splitAt(tok)) >= 2 THEN splitAt(tok)[2] ELSE None)

\* Two declarations, the first without an api version, both returned.
WitC13_TwoDeclarationsInOrder ==
    /\ bpc = "done"
    /\ Len(resources) = 2
    /\ resources[1].name = "widget" /\ resources[1].apiVersion = None
    /\ resources[1].type = "Contoso.Custom/widgets"
    /\ resources[2].name = "web" /\ resources[2].apiVersion = "2022-03-01"
    /\ resources[2].type = "Microsoft.Web/sites"


\* C14: parseBicepResources returns the empty list for an empty or
\* whitespace-only template, and setBicepTemplate with such a template
\* resets currentBicepTemplate to null and the resource map to empty.
ThmC14_BlankTemplateResets ==
    /\ bpc \in {"done", "stored"} /\ isBlank(template) => resources = <<>>
    /\ \A t \in BlankTemplates : parseBicepResources(t, lastIndex) = <<>>
    /\ storeCall.op = "setBicepTemplate" /\ isBlank(storeCall.template) =>
           /\ currentBicepTemplate = "null"
           /\ DOMAIN bicepResourcesByService = {}

\* A store holding a template with a resource was handed a line break only.
WitC14_StoreResetFromLoaded ==
    /\ storeCall.op = "setBicepTemplate"
    /\ storeCall.template = <<Newline>>
    /\ storeCall.hadTemplate
    /\ resources # <<>>
    /\ currentBicepTemplate = "null"
    /\ DOMAIN bicepResourcesByService = {}


\* The snippets returned are those of the declarations a brace follows, and a
\* body whose brace is never closed runs to the end of the template: never
\* closed for extractBlock's own counter, and, where no two backslashes stand
\* in a row, never closed for a reader of string literals.
SkipsAndOpenBodies ==
    bpc = "done" /\ ~isBlank(template) =>
        /\ Len(resources) = Len(bracedDecls(template))
        /\ \A k \in 1..Len(resources) :
               k <= Len(bracedDecls(template)) =>
                   LET open == indexOfBrace(template, bracedDecls(template)[k])
                       rest == SubSeq(template, open, Len(template))
                   IN  /\ scanBlock(template, open) = 0 =>
                              resources[k].body = rest
                       /\ NoBackslashRun(template) /\ matchingBrace(template, open) = 0 =>
                              resources[k].body = rest

\* C15: parseBicepResources terminates for every template, also with
\* unbalanced braces, an unterminated string literal or a declaration with no
\* brace after it; an unclosed body is returned as the rest of the template
\* and a declaration without any following brace is skipped.
ThmC15_TerminatesOnMalformedTemplates ==
    /\ [](SkipsAndOpenBodies)
    /\ (bpc = "scan") ~> (bpc = "done")

\* A body left open by an unterminated string literal, followed by a
\* declaration that no brace follows.
WitC15_OpenBodyAndSkippedDeclaration ==
    /\ bpc = "done"
    /\ template = <<"D1", LBrace, DQuote, "D2">>
    /\ Len(resources) = 1
    /\ resources[1].name = "web"
    /\ resources[1].body = <<LBrace, DQuote, "D2">>


\* A double quote of a body that opens or closes a string literal: an even
\* number of backslashes stands right before it.
delimitsLiteral(body, k) ==
    /\ body[k] = DQuote
    /\ \E n \in 0..(k - 1) :
           /\ n % 2 = 0
           /\ \A j \in (k - n)..(k - 1) : body[j] = Backslash
           /\ (k - n = 1 \/ body[k - n - 1] # Backslash)

\* The index k of a body lies inside a string literal.
insideLiteral(body, k) ==
    Cardinality({j \in 1..k : delimitsLiteral(body, j)}) % 2 = 1

\* The number of blocks open just before index p, the braces of string
\* literals left out: 1 directly inside the resource body.
blocksOpenBefore(body, p) ==
    Cardinality({j \in 1..(p - 1) : body[j] = LBrace /\ ~insideLiteral(body, j)})
    - Cardinality({j \in 1..(p - 1) : body[j] = RBrace /\ ~insideLiteral(body, j)})

\* The indexes of a body at which a line starts with a property.
propertyStarts(body) ==
    {p \in 1..Len(body) : body[p] \in PropTokens /\ (p = 1 \/ body[p - 1] = Newline)}

\* The names of the properties directly inside the resource body, and of
\* those inside one of its sub-blocks.
topLevelKeys(body) ==
    {propKey(body[p]) : p \in {q \in propertyStarts(body) : blocksOpenBefore(body, q) = 1}}

nestedKeys(body) ==
    {propKey(body[p]) : p \in {q \in propertyStarts(body) : blocksOpenBefore(body, q) >= 2}}

\* C16: the properties list of an extracted resource holds the name of every
\* top-level property of its body, those included whose value opens a
\* sub-block on the same line.
OrigC16_EveryTopLevelPropertyListed ==
    bpc = "done" =>
        \A k \in 1..Len(resources) :
            topLevelKeys(resources[k].body) \subseteq Range(resources[k].properties)

\* C17: the properties list of an extracted resource holds no duplicate and
\* no name that occurs only inside a nested sub-block of its body.
OrigC17_NoDuplicateNoNestedName ==
    bpc = "done" =>
        \A k \in 1..Len(resources) :
            /\ NoDuplicates(resources[k].properties)
            /\ Range(resources[k].properties)
                  \cap (nestedKeys(resources[k].body) \ topLevelKeys(resources[k].body)) = {}


isWordRun(ps) ==
    /\ ps # <<>>
    /\ ps[1] \in WordChars /\ ps[Len(ps)] \in WordChars
    /\ \A i \in 1..Len(ps) : ps[i] \in WordChars \cup {Blank}

\* For every way of reading the text as a word run, blanks, one of the given
\* arrows, blanks and a word run, the candidate leads from the first run to
\* the second.
ArrowsRecognized(arrows) ==
    \A a, i, b \in 1..Len(text) :
        ( /\ a < i /\ i < b
          /\ text[i] \in arrows
          /\ isWordRun(SubSeq(text, 1, a)) /\ isWordRun(SubSeq(text, b, Len(text)))
          /\ \A j \in ((a + 1)..(i - 1)) \cup ((i + 1)..(b - 1)) : text[j] = Blank )
        => candidate = [from |-> charsOf(SubSeq(text, 1, a)),
                        to |-> charsOf(SubSeq(text, b, Len(text)))]

\* C20: the arrow pattern yields a candidate connection from X to Y for the
\* texts `X --> Y`, `X -> Y` and `X U+2192 Y`, X and Y runs of one or more
\* words.
OrigC20_ThreeArrowFormsRecognized ==
    tpc = "scanned" => ArrowsRecognized({"-->", "->", "U+2192"})

\* The part of C20 the pattern keeps: the two short arrows and `<-->`.
C20_HoldsForOtherArrows ==
    tpc = "scanned" => ArrowsRecognized({"<-->", "->", "U+2192"})

(***************************************************************************)
(* Claim C21: calls of parseBicepResources and the shared regex.           *)
(***************************************************************************)

\* C21: whenever a call of parseBicepResources has returned, the scan position
\* of resourceRegex is back at the start, and the result of the call is the
\* one a call in a fresh module gives for the same template, whatever calls
\* came before.
ThmC21_CallsDoNotInterfere ==
    /\ bpc \in {"edit", "done"} => lastIndex = 0
    /\ bpc = "done" => resources = parseBicepResources(template, 0)

\* A second call within the module has returned, with a snippet and with a
\* declaration passed over.
WitC21_SecondCallReturned ==
    /\ bpc = "done"
    /\ calls = 2
    /\ Len(resources) >= 1
    /\ Len(allDecls(template)) > Len(resources)

(***************************************************************************)
(* Claim C27: the quotes on which extractBlock toggles its in-string flag. *)
(***************************************************************************)

\* C27: while extractBlock scans a block, its in-string flag toggles on
\* exactly the unescaped double quotes, a double quote with an even number of
\* backslashes right before it being unescaped.
OrigC27_TogglesOnUnescapedQuotes ==
    (bpc = "done" /\ Len(resources) >= 1) =>
        \A start \in {indexOfBrace(template, bracedDecls(template)[1])} :
            \A k \in start..Len(template) :
                togglesString(template, start, k) <=> delimitsLiteral(template, k)

\* The part of C27 the extractor keeps: the same, for templates in which no
\* backslash stands right before another backslash.
C27_HoldsWithoutBackslashRuns ==
    NoBackslashRun(template) => OrigC27_TogglesOnUnescapedQuotes

(***************************************************************************)
(* ChatPanel: the architecture built from an image-analysis result by the  *)
(* buttons Add to Diagram and Replace Diagram (ChatPanel.tsx 437-573).     *)
(***************************************************************************)
MaxDetectedServices == 2
MaxDetectedConnections == 1

\* The empty string; a connection without from_service or to_service reads
\* as this one in every place the handlers look at it (`c.from_service || ''`
\* and `if (c.from_service)`).
EmptyName == Str("", "lower", "none")

\* The names an analysis may hold: two aliases of one catalog service, two
\* names no alias or title equals, and the empty string.
DetectedNames ==
    { Str("app service", "lower", "none"), Str("web app", "lower", "none"),
      Str("my db", "upper", "none"), Str("my-db", "lower", "none"), EmptyName }

\* The characters that are no letter or digit.
Separators == {" ", "-"}

\* A lower-case string spelled as its runs of letters and digits and the
\* characters between them.
spell(folded) ==
    CASE folded = "app service" -> <<"app", " ", "service">>
      [] folded = "web app" -> <<"web", " ", "app">>
      [] folded = "my db" -> <<"my", " ", "db">>
      [] folded = "my-db" -> <<"my", "-", "db">>
      [] folded = "" -> <<>>

\* name.toLowerCase(), spelled, the blanks around the name included.
lowerSpelled(name) ==
    (IF name.pad \in {"leading", "both"} THEN <<" ">> ELSE <<>>)
    \o spell(lowerCase(name).folded)
    \o (IF name.pad \in {"trailing", "both"} THEN <<" ">> ELSE <<>>)

\* .replace(/[^a-z0-9]+/g, '-'): every run of separators becomes one dash.
dashRuns(p) ==
    LET kept == SelectSeq([k \in 1..Len(p) |-> k],
                          LAMBDA k : p[k] \notin Separators \/ k = 1 \/ p[k - 1] \notin Separators)
    IN  [n \in 1..Len(kept) |-> IF p[kept[n]] \in Separators THEN "-" ELSE p[kept[n]]]

\* .replace(/(^-|-$)/g, ''): a dash at either end is dropped.
trimDashes(d) ==
    LET from == IF Len(d) >= 1 /\ d[1] = "-" THEN 2 ELSE 1
        to == IF Len(d) >= from /\ d[Len(d)] = "-" THEN Len(d) - 1 ELSE Len(d)
    IN  SubSeq(d, from, to)

\* The slug of the stub of an unresolved name (ChatPanel.tsx 468 and 544).
slug(name) == trimDashes(dashRuns(lowerSpelled(name)))

\* The id of a stub, `ai:${slug}`, and the id a connection falls back to,
\* whose slug keeps its outer dashes (ChatPanel.tsx 486-487 and 558-559).
stubId(name) == <<"ai:">> \o slug(name)
fallbackId(name) == <<"ai:">> \o dashRuns(lowerSpelled(name))

\* The id of a catalog entry: one per entry, and none begins with "ai:".
catalogId(entry) == <<"catalog:", entry.title>>

\* The service pushed for a name: the catalog entry found, or a stub.
serviceFor(name) ==
    LET hit == findAzureServiceByName(name)
    IN  IF hit.how # "none"
        THEN [id |-> catalogId(hit.entry), title |-> hit.entry.title, category |-> "catalog"]
        ELSE [id |-> stubId(name), title |-> name, category |-> "AI Detected"]

\* Array.from(nameSet): the services, then the non-empty endpoints of the
\* connections, each name once.
endpointsOf(connections) ==
    Flatten([k \in 1..Len(connections) |->
                (IF connections[k].from_service # EmptyName
                 THEN <<connections[k].from_service>> ELSE <<>>)
                \o (IF connections[k].to_service # EmptyName
                    THEN <<connections[k].to_service>> ELSE <<>>)])

allNames(a) == Dedup(a.services \o endpointsOf(a.connections))

\* nameToId.get(name) || the fallback id.
endpointId(a, name) ==
    IF name \in Range(allNames(a)) THEN serviceFor(name).id ELSE fallbackId(name)

layoutFor(n) == IF n <= 3 THEN "horizontal" ELSE IF n <= 6 THEN "vertical" ELSE "grid"

\* The ParsedArchitecture both buttons build (ChatPanel.tsx 448-495 and
\* 524-567).
buildArchitecture(a) ==
    [services |-> [k \in 1..Len(allNames(a)) |-> serviceFor(allNames(a)[k])],
     connections |-> [k \in 1..Len(a.connections) |->
                         [from |-> endpointId(a, a.connections[k].from_service),
                          to |-> endpointId(a, a.connections[k].to_service)]],
     layout |-> layoutFor(Len(allNames(a)))]

AnalysisInit ==
    /\ analysis = [services |-> <<>>, connections |-> <<>>]
    /\ architecture = [services |-> <<>>, connections |-> <<>>, layout |-> "none"]
    /\ apc = "detect"

coreVars == <<normVars, nodeVars, iacVars, textVars>>

\* The vision agent reports a service.
DetectService(name) ==
    /\ apc = "detect"
    /\ Len(analysis.services) < MaxDetectedServices
    /\ analysis' = [analysis EXCEPT !.services = Append(@, name)]
    /\ UNCHANGED <<architecture, apc, envVars, chatVars, landVars, sockVars, sessVars, coreVars>>

\* The vision agent reports a connection.
DetectConnection(from, to) ==
    /\ apc = "detect"
    /\ Len(analysis.connections) < MaxDetectedConnections
    /\ analysis' = [analysis EXCEPT !.connections =
                        Append(@, [from_service |-> from, to_service |-> to])]
    /\ UNCHANGED <<architecture, apc, envVars, chatVars, landVars, sockVars, sessVars, coreVars>>

\* Add to Diagram, on a message with an analysis result and no structured
\* diagram.
AddToDiagram ==
    /\ apc = "detect"
    /\ architecture' = buildArchitecture(analysis)
    /\ apc' = "added"
    /\ UNCHANGED <<analysis, envVars, chatVars, landVars, sockVars, sessVars, coreVars>>

\* Replace Diagram, on the same message.
ReplaceDiagram ==
    /\ apc = "detect"
    /\ architecture' = buildArchitecture(analysis)
    /\ apc' = "replaced"
    /\ UNCHANGED <<analysis, envVars, chatVars, landVars, sockVars, sessVars, coreVars>>

AnalysisNext ==
    \/ \E name \in DetectedNames : DetectService(name)
    \/ \E from, to \in DetectedNames : DetectConnection(from, to)
    \/ AddToDiagram
    \/ ReplaceDiagram

AnalysisStart == AnalysisInit /\ CoreIdle /\ EnvIdle /\ ChatIdle /\ LandIdle /\ SocketIdle /\ SessionIdle

SpecAnalysis == AnalysisStart /\ [][AnalysisNext]_vars

(***************************************************************************)
(* Claims C22 and C23: the architecture built from an analysis result.     *)
(***************************************************************************)
serviceIds(a) == {a.services[k].id : k \in 1..Len(a.services)}

\* C22: in the architecture built from an image-analysis result, every
\* connection has both endpoints among the ids of the services and its two
\* endpoints differ.
OrigC22_ConnectionsJoinTwoServices ==
    apc \in {"added", "replaced"} =>
        \A k \in 1..Len(architecture.connections) :
            /\ architecture.connections[k].from \in serviceIds(architecture)
            /\ architecture.connections[k].to \in serviceIds(architecture)
            /\ architecture.connections[k].from # architecture.connections[k].to

\* The part of C22 the handlers keep: an endpoint that is named is the id of a
\* service of the architecture.
C22_NamedEndpointsAreServices ==
    apc \in {"added", "replaced"} =>
        \A k \in 1..Len(architecture.connections) :
            /\ analysis.connections[k].from_service # EmptyName =>
                   architecture.connections[k].from \in serviceIds(architecture)
            /\ analysis.connections[k].to_service # EmptyName =>
                   architecture.connections[k].to \in serviceIds(architecture)

\* C23: in the architecture built from an image-analysis result, no two
\* services share an id.
OrigC23_ServiceIdsDistinct ==
    apc \in {"added", "replaced"} =>
        \A j, k \in 1..Len(architecture.services) :
            architecture.services[j].id = architecture.services[k].id => j = k

\* The part of C23 the handlers keep: no name is given two services.
C23_OneServicePerName ==
    apc \in {"added", "replaced"} =>
        \A j, k \in 1..Len(architecture.services) :
            allNames(analysis)[j] = allNames(analysis)[k] => j = k

(***************************************************************************)
(* useChat: the chat history, the Azure thread id and what is persisted    *)
(* (Index.tsx 579-597 and 620-666, 716-820, 922-1039).                     *)
(***************************************************************************)
RECENT_CONTEXT_LIMIT == 8
MaxMessages == 10
MaxStoredMessages == 6

\* The thread ids a reply may carry: none, or the thread of the backend.
ReplyIds == {"null", "thread-1"}

\* The project the workspace route names.
projectId == IF route = "/app/p1" THEN "p1" ELSE "null"

\* `!supabase || !projectId` does not hold.
persists == supabaseClient # "null" /\ projectId # "null"

\* How far the history is followed, with and without persistence.
historyCap == IF persists THEN MaxStoredMessages ELSE MaxMessages

Greeting == [role |-> "assistant", content |-> 0, status |-> "sent"]

\* history.slice(-RECENT_CONTEXT_LIMIT)
recentOf(history) ==
    SubSeq(history,
           IF Len(history) > RECENT_CONTEXT_LIMIT
           THEN Len(history) - RECENT_CONTEXT_LIMIT + 1 ELSE 1,
           Len(history))

\* buildSummary with the first messages kept instead of the last.
buildSummary_head(history) ==
    LET recent == SubSeq(history, 1,
                         IF Len(history) > RECENT_CONTEXT_LIMIT
                         THEN RECENT_CONTEXT_LIMIT ELSE Len(history))
    IN  [summary |-> [k \in 1..Len(recent) |->
                         <<IF recent[k].role = "assistant" THEN "Assistant"
                           ELSE IF recent[k].role = "user" THEN "User" ELSE "System",
                           recent[k].content>>],
         recent_messages |-> [k \in 1..Len(recent) |->
                                 [role |-> recent[k].role, content |-> recent[k].content]]]

\* buildSummary: one line `${speaker}: ${content}` per recent message, and the
\* recent messages cut down to role and content.
buildSummary(history) ==
    LET recent == recentOf(history)
    IN  [summary |-> [k \in 1..Len(recent) |->
                         <<IF recent[k].role = "assistant" THEN "Assistant"
                           ELSE IF recent[k].role = "user" THEN "User" ELSE "System",
                           recent[k].content>>],
         recent_messages |-> [k \in 1..Len(recent) |->
                                 [role |-> recent[k].role, content |-> recent[k].content]]]

\* persistMessage without its test of the client and the project.
persistMessage_always(id) == <<[kind |-> "insert", id |-> id]>>

\* persistMessage(message, id): one insert into conversations, or nothing.
persistMessage(id) == IF persists THEN <<[kind |-> "insert", id |-> id]>> ELSE <<>>

\* syncAzureConversationId(id): the update of the project row; the update of
\* the conversation rows is issued when that one has been carried out.
syncAzureConversationId(id) == IF persists THEN <<[kind |-> "project", id |-> id]>> ELSE <<>>

\* prev.map(msg => msg.id === id ? {...msg, status} : msg)
withStatus(history, k, status) ==
    [j \in 1..Len(history) |-> IF j = k THEN [history[j] EXCEPT !.status = status]
                               ELSE history[j]]

assistantMessage(history) == [role |-> "assistant", content |-> Len(history), status |-> "sent"]

ChatInit ==
    /\ messages = <<Greeting>>
    /\ azureConversationId = "null"
    /\ inflight = NoRequest
    /\ sent = NoPayload
    /\ db = [project |-> "null", rows |-> <<>>]
    /\ ops = <<>>
    /\ thread = NoThread
    /\ DiagramIdle

restVars == <<coreVars, analysisVars, landVars, diagVars, sockVars, sessVars>>

\* sendMessage, over the WebSocket (team path) or over REST.
SendMessage(via) ==
    /\ route \in {"/app", "/app/p1"}
    /\ inflight = NoRequest
    /\ Len(messages) < historyCap
    /\ LET userMessage == [role |-> "user", content |-> Len(messages), status |-> "sending"]
           history == Append(messages, userMessage)
       IN  /\ messages' = history
           /\ ops' = ops \o persistMessage(azureConversationId)
           /\ inflight' = [via |-> via, user |-> Len(history)]
           /\ sent' = [via |-> via, user |-> Len(history),
                       conversation_id |-> azureConversationId,
                       context |-> buildSummary(history),
                       afterThread |-> thread.id # "null"]
    /\ called' = (called \/ persists)
    /\ UNCHANGED <<supabaseClient, route, azureConversationId, db, thread, restVars>>

\* The REST reply, `id` being its conversation_id (Index.tsx 992-1017).
RestReply(id) ==
    /\ inflight.via = "rest"
    /\ LET resolvedConversationId == IF id # "null" THEN id ELSE azureConversationId
           records == /\ resolvedConversationId # "null"
                      /\ resolvedConversationId # azureConversationId
       IN  /\ azureConversationId' = IF records THEN resolvedConversationId
                                     ELSE azureConversationId
           /\ ops' = ops \o (IF records THEN syncAzureConversationId(resolvedConversationId)
                             ELSE <<>>)
                         \o persistMessage(resolvedConversationId)
    /\ messages' = Append(withStatus(messages, inflight.user, "sent"),
                          assistantMessage(messages))
    /\ thread' = IF thread.id = "null" /\ id # "null" THEN [id |-> id, via |-> "rest"]
                 ELSE thread
    /\ inflight' = NoRequest
    /\ called' = (called \/ persists)
    /\ UNCHANGED <<supabaseClient, route, sent, db, restVars>>

\* The REST request fails (Index.tsx 986-990 and 1018-1026).
RestFailure ==
    /\ inflight.via = "rest"
    /\ messages' = withStatus(messages, inflight.user, "error")
    /\ inflight' = NoRequest
    /\ UNCHANGED <<envVars, azureConversationId, sent, db, ops, thread, restVars>>

\* The payloads of a team_final event.  `diagram`: absent, an object that
\* parses to an architecture with services, to one without, to null, or that
\* makes parseStructuredDiagram throw, or a string that is JSON of a diagram
\* or no JSON.  `diagram_raw`: absent or '', JSON of a diagram with or without
\* services, or no JSON.  `message`: '', text naming no service, text naming
\* services.
DiagramKinds == {"absent", "object-ok", "object-empty", "object-null", "object-throws",
                 "string-ok", "string-bad"}
RawKinds == {"absent", "ok", "empty", "bad"}
Texts == {"", "prose", "mentions"}
Events == [diagram : DiagramKinds, diagram_raw : RawKinds, message : Texts]

\* The structured diagram with nothing tried after the `diagram` object.
structuredOf_firstOnly(ev) ==
    IF ev.diagram = "object-ok" THEN [source |-> "diagram", services |-> 2]
    ELSE IF ev.diagram = "object-empty" THEN [source |-> "diagram", services |-> 0]
    ELSE NoArchitecture

\* The structured diagram of a team_final event (Index.tsx 723-748): the
\* `diagram` object, else `diagram_raw`, else `diagram` as a JSON string; a
\* throw is caught and leaves null, and an architecture without services is
\* not null.
structuredOf(ev) ==
    LET first == IF ev.diagram = "object-ok" THEN [source |-> "diagram", services |-> 2]
                 ELSE IF ev.diagram = "object-empty"
                 THEN [source |-> "diagram", services |-> 0]
                 ELSE NoArchitecture
        second == IF first = NoArchitecture /\ ev.diagram_raw # "absent"
                  THEN IF ev.diagram_raw = "ok"
                       THEN [source |-> "diagram_raw", services |-> 2]
                       ELSE IF ev.diagram_raw = "empty"
                       THEN [source |-> "diagram_raw", services |-> 0]
                       ELSE NoArchitecture
                  ELSE first
    IN  IF second = NoArchitecture /\ ev.diagram \in {"string-ok", "string-bad"}
        THEN IF ev.diagram = "string-ok"
             THEN [source |-> "diagram string", services |-> 2]
             ELSE NoArchitecture
        ELSE second

\* ArchitectureParser.parseResponse(text): the architecture read from prose.
parseResponse(messageText) ==
    [source |-> "text", services |-> IF messageText = "mentions" THEN 2 ELSE 0]

\* The team_final event of the WebSocket, `id` being the thread id the
\* backend attaches to it (Index.tsx 716-820).
TeamFinal(id, ev) ==
    /\ inflight.via = "ws"
    /\ lastEvent' = ev
    /\ latestDiagram' = [messageId |-> Len(messages) + 1,
                         architecture |-> structuredOf(ev),
                         raw |-> ev.diagram_raw,
                         messageText |-> ev.message]
    /\ messages' = Append(withStatus(messages, inflight.user, "sent"),
                          assistantMessage(messages))
    /\ ops' = ops \o persistMessage(azureConversationId)
    /\ thread' = IF thread.id = "null" /\ id # "null" THEN [id |-> id, via |-> "ws"]
                 ELSE thread
    /\ inflight' = NoRequest
    /\ called' = (called \/ persists)
    /\ UNCHANGED <<supabaseClient, route, azureConversationId, sent, db, applied, processed,
                   diagram,
                   coreVars, analysisVars, landVars, sockVars, sessVars>>

without(q, k) == SubSeq(q, 1, k - 1) \o SubSeq(q, k + 1, Len(q))

\* Supabase carries out one of the calls issued.
DbStep(k) ==
    /\ k \in 1..Len(ops)
    /\ CASE ops[k].kind = "insert" ->
                /\ db' = [db EXCEPT !.rows = Append(@, ops[k].id)]
                /\ ops' = without(ops, k)
         [] ops[k].kind = "project" ->
                /\ db' = [db EXCEPT !.project = ops[k].id]
                /\ ops' = Append(without(ops, k), [kind |-> "rows", id |-> ops[k].id])
         [] ops[k].kind = "rows" ->
                /\ db' = [db EXCEPT !.rows =
                             [j \in 1..Len(@) |-> IF @[j] = "null" THEN ops[k].id ELSE @[j]]]
                /\ ops' = without(ops, k)
    /\ UNCHANGED <<envVars, messages, azureConversationId, inflight, sent, thread, restVars>>

\* A workspace without Supabase keys.
ContextNext ==
    \/ \E via \in {"ws", "rest"} : SendMessage(via)
    \/ \E id \in ReplyIds : RestReply(id)
    \/ RestFailure
    \/ \E id \in ReplyIds : TeamFinal(id, PlainEvent)

ContextStart ==
    /\ ChatInit /\ CoreIdle /\ AnalysisIdle /\ LandIdle /\ SocketIdle /\ SessionIdle
    /\ supabaseClient = "null" /\ called = FALSE /\ route = "/app"

SpecContext == ContextStart /\ [][ContextNext]_vars

\* The workspace of a project, with Supabase.
ConversationNext ==
    \/ ContextNext
    \/ \E k \in 1..MaxStoredMessages + 2 : DbStep(k)

ConversationStart ==
    /\ ChatInit /\ CoreIdle /\ AnalysisIdle /\ LandIdle /\ SocketIdle /\ SessionIdle
    /\ supabaseClient = "client" /\ called = FALSE /\ route = "/app/p1"

SpecConversation == ConversationStart /\ [][ConversationNext]_vars

(***************************************************************************)
(* Claims C24 and C25: the thread id and the context of a chat turn.       *)
(***************************************************************************)

\* C24: once a reply has carried a thread id, over REST or in a team_final
\* event, and the calls it set off have been carried out, useChat holds the
\* id and the project row has it; a sendMessage made after that reply
\* carries the id as conversation_id.
OrigC24_ThreadIdRecordedAndReused ==
    /\ (thread.id # "null" /\ inflight = NoRequest /\ ops = <<>>) =>
           (azureConversationId = thread.id /\ db.project = thread.id)
    /\ (sent.via # "none" /\ sent.afterThread) => sent.conversation_id = thread.id

\* The part of C24 useChat keeps: the same when the id came with a REST
\* reply; the conversation rows are updated after the project row.
C24_HoldsOverRest ==
    /\ thread.via = "rest" => OrigC24_ThreadIdRecordedAndReused
    /\ \A k \in 1..Len(ops) : ops[k].kind = "rows" => db.project = ops[k].id

\* C25: the context sent with a chat turn holds the last min(8, n) messages
\* of the history that ends with the user message just sent, in their order,
\* and never more than eight.
ThmC25_ContextIsLastEight ==
    sent.via # "none" =>
        LET n == sent.user
            recent == sent.context.recent_messages
            size == IF n < 8 THEN n ELSE 8
        IN  /\ Len(recent) = size
            /\ Len(recent) <= 8
            /\ Len(sent.context.summary) = size
            /\ \A k \in 1..size :
                   /\ recent[k].role = messages[n - size + k].role
                   /\ recent[k].content = messages[n - size + k].content
                   /\ sent.context.summary[k][2] = messages[n - size + k].content

\* A turn sent over REST with more than eight messages behind it.
WitC25_LongHistoryOverRest ==
    /\ sent.via = "rest"
    /\ sent.user > 8
    /\ Len(sent.context.recent_messages) = 8

(***************************************************************************)
(* SupabaseProvider, the landing page and createProjectWithPrompt          *)
(* (SupabaseContext.tsx 21-90, Index.tsx 82-116, part_004 36-86), and      *)
(* persistDiagramState of ChatPanel (ChatPanel.tsx 93-113).                *)
(***************************************************************************)
MaxAttempts == 2

\* What is typed into the prompt box: nothing, blanks, a request.
Prompts == {Str("", "lower", "none"), Str("", "lower", "both"),
            Str("design a web app", "lower", "trailing")}

\* createProjectWithPrompt with the project row inserted first.
nextStep_insertFirst(c) ==
    IF ~c.inserted THEN "insert"
    ELSE IF c.cover # "null" /\ c.upload = "none" THEN "upload"
    ELSE "return"

\* What createProjectWithPrompt does next: the upload of the cover, when one
\* is given and not yet uploaded, then the insert, then the return.
nextStep(c) ==
    IF c.cover # "null" /\ c.upload = "none" THEN "upload"
    ELSE IF ~c.inserted THEN "insert"
    ELSE "return"

otherVars == <<coreVars, analysisVars, sockVars, sessVars>>
chatRest == <<azureConversationId, inflight, sent, db, ops, thread, diagVars>>

\* The effect of SupabaseProvider (SupabaseContext.tsx 25-54).
ProviderEffect ==
    /\ provider.stage = "init"
    /\ IF supabaseClient = "null"
       THEN /\ provider' = [provider EXCEPT !.isReady = TRUE, !.stage = "ready"]
            /\ UNCHANGED called
       ELSE /\ provider' = [provider EXCEPT !.stage = "loading"]
            /\ called' = TRUE
    /\ lastOp' = "provider"
    /\ UNCHANGED <<supabaseClient, route, landing, creation, storage, chatVars, otherVars>>

\* auth.getSession() resolves (SupabaseContext.tsx 33-39).
SessionLoaded(session) ==
    /\ provider.stage = "loading"
    /\ provider' = [isReady |-> TRUE, session |-> session, stage |-> "ready"]
    /\ UNCHANGED <<envVars, landing, creation, storage, lastOp, chatVars, otherVars>>

\* signOut of the context (SupabaseContext.tsx 71-76).
SignOut ==
    /\ route # "none"
    /\ IF supabaseClient = "null"
       THEN UNCHANGED <<provider, called>>
       ELSE /\ provider' = [provider EXCEPT !.session = "null"]
            /\ called' = TRUE
    /\ lastOp' = "signOut"
    /\ UNCHANGED <<supabaseClient, route, landing, creation, storage, chatVars, otherVars>>

TypePrompt(p) ==
    /\ route = "/" /\ landing.pc \in {"idle", "returned", "failed"}
    /\ landing' = [landing EXCEPT !.prompt = p]
    /\ UNCHANGED <<envVars, provider, creation, storage, lastOp, chatVars, otherVars>>

\* handleFileChange (Index.tsx 69-76).
SelectFile ==
    /\ route = "/" /\ landing.pc \in {"idle", "returned", "failed"}
    /\ landing' = [landing EXCEPT !.coverFile = "file"]
    /\ UNCHANGED <<envVars, provider, creation, storage, lastOp, chatVars, otherVars>>

\* startWorkspace up to its first await (Index.tsx 82-101), and to its end
\* when no project is to be created (lines 103-115).
StartWorkspace ==
    /\ route = "/" /\ landing.pc \in {"idle", "returned", "failed"}
    /\ landing.attempts < MaxAttempts
    /\ lastOp' = "startWorkspace"
    /\ IF trim(landing.prompt).folded = ""
       THEN /\ landing' = [landing EXCEPT !.pc = "returned"]
            /\ UNCHANGED <<route, creation, messages>>
       ELSE IF supabaseClient # "null" /\ provider.isReady
       THEN /\ landing' = [landing EXCEPT !.pc = "creating", !.isSubmitting = TRUE,
                                           !.errorMessage = "null", !.attempts = @ + 1]
            /\ creation' = [cover |-> landing.coverFile, upload |-> "none",
                            inserted |-> FALSE, before |-> Len(storage.projects)]
            /\ UNCHANGED <<route, messages>>
       ELSE /\ landing' = [landing EXCEPT !.pc = "navigated", !.errorMessage = "null",
                                           !.attempts = @ + 1]
            /\ route' = "/app"
            /\ messages' = <<Greeting>>
            /\ UNCHANGED creation
    /\ UNCHANGED <<supabaseClient, called, provider, storage, chatRest, otherVars>>

\* createProjectWithPrompt: the upload of the cover file (part_004 49-61).
UploadCover(ok) ==
    /\ landing.pc = "creating" /\ nextStep(creation) = "upload"
    /\ called' = TRUE
    /\ IF ok
       THEN /\ storage' = [storage EXCEPT !.objects = @ + 1]
            /\ creation' = [creation EXCEPT !.upload = "ok"]
            /\ UNCHANGED landing
       ELSE /\ creation' = [creation EXCEPT !.upload = "failed"]
            /\ landing' = [landing EXCEPT !.pc = "failed", !.isSubmitting = FALSE,
                                           !.errorMessage = "upload"]
            /\ UNCHANGED storage
    /\ UNCHANGED <<supabaseClient, route, provider, lastOp, chatVars, otherVars>>

\* createProjectWithPrompt: the insert of the project row (part_004 63-83).
InsertProject(ok) ==
    /\ landing.pc = "creating" /\ nextStep(creation) = "insert"
    /\ called' = TRUE
    /\ IF ok
       THEN /\ storage' = [storage EXCEPT !.projects =
                              Append(@, [cover_url |-> IF creation.upload = "ok"
                                                       THEN "public-url" ELSE "null"])]
            /\ creation' = [creation EXCEPT !.inserted = TRUE]
            /\ UNCHANGED landing
       ELSE /\ landing' = [landing EXCEPT !.pc = "failed", !.isSubmitting = FALSE,
                                           !.errorMessage = "insert"]
            /\ UNCHANGED <<storage, creation>>
    /\ UNCHANGED <<supabaseClient, route, provider, lastOp, chatVars, otherVars>>

\* createProjectWithPrompt returns the row and startWorkspace navigates to
\* the project (part_004 85, Index.tsx 100-109).
ReturnProject ==
    /\ landing.pc = "creating" /\ nextStep(creation) = "return"
    /\ landing' = [landing EXCEPT !.pc = "navigated", !.isSubmitting = FALSE]
    /\ route' = "/app/p1"
    /\ messages' = <<Greeting>>
    /\ UNCHANGED <<supabaseClient, called, provider, creation, storage, lastOp, chatRest,
                   otherVars>>

\* persistDiagramState of ChatPanel (ChatPanel.tsx 93-113).
PersistDiagramState ==
    /\ route \in {"/app", "/app/p1"}
    /\ called' = (called \/ persists)
    /\ lastOp' = "persistDiagramState"
    /\ UNCHANGED <<supabaseClient, route, provider, landing, creation, storage, chatVars,
                   otherVars>>

\* The landing page of an installation with Supabase keys.
LandingNext ==
    \/ ProviderEffect
    \/ \E session \in {"null", "user"} : SessionLoaded(session)
    \/ SignOut
    \/ \E p \in Prompts : TypePrompt(p)
    \/ SelectFile
    \/ StartWorkspace
    \/ \E ok \in BOOLEAN : UploadCover(ok)
    \/ \E ok \in BOOLEAN : InsertProject(ok)
    \/ ReturnProject
    \/ PersistDiagramState

LandingStart ==
    /\ CoreIdle /\ AnalysisIdle /\ ChatIdle /\ LandIdle /\ SocketIdle /\ SessionIdle
    /\ supabaseClient = "client" /\ called = FALSE /\ route = "/"

SpecLanding == LandingStart /\ [][LandingNext]_vars

\* The whole front end of an installation without Supabase keys.
OfflineNext ==
    \/ ProviderEffect
    \/ SignOut
    \/ \E p \in Prompts : TypePrompt(p)
    \/ SelectFile
    \/ StartWorkspace
    \/ PersistDiagramState
    \/ ContextNext

OfflineStart ==
    /\ CoreIdle /\ AnalysisIdle /\ ChatIdle /\ LandIdle /\ SocketIdle /\ SessionIdle
    /\ supabaseClient = "null" /\ called = FALSE /\ route = "/"

SpecOffline == OfflineStart /\ [][OfflineNext]_vars

(***************************************************************************)
(* Claims C26 and C28.                                                     *)
(***************************************************************************)

\* C26: without a Supabase client no Supabase call is ever made and nothing
\* is stored; the provider is ready once its effect has run, signOut changes
\* nothing, useChat and ChatPanel persist nothing, and startWorkspace with a
\* non-blank prompt navigates to /app without creating a project.
ThmC26_NoClientNoCalls ==
    supabaseClient = "null" =>
        /\ ~called
        /\ ops = <<>>
        /\ db = [project |-> "null", rows |-> <<>>]
        /\ storage = [objects |-> 0, projects |-> <<>>]
        /\ creation = NoCreation
        /\ provider.session = "null"
        /\ provider.stage # "init" => provider.isReady
        /\ (landing.attempts > 0) => (landing.pc = "navigated" /\ route = "/app")

\* Without a client: the workspace was opened from a prompt, messages were
\* exchanged, the user signed out and the diagram was to be persisted.
WitC26_OfflineWorkspaceUsed ==
    /\ supabaseClient = "null"
    /\ route = "/app"
    /\ provider.isReady
    /\ Len(messages) >= 3
    /\ sent.via # "none"
    /\ lastOp = "persistDiagramState"

\* C28: createProjectWithPrompt uploads the cover file, when one is given,
\* before it inserts the project row, and a failed upload ends the call
\* before any insert: no project row is left behind.
ThmC28_UploadBeforeInsert ==
    /\ creation.upload = "failed" =>
           /\ ~creation.inserted
           /\ Len(storage.projects) = creation.before
           /\ landing.pc \in {"failed", "returned"}
    /\ (creation.inserted /\ creation.cover # "null") =>
           /\ creation.upload = "ok"
           /\ storage.objects >= 1
           /\ storage.projects[Len(storage.projects)].cover_url = "public-url"

\* The upload of a cover file has failed.
WitC28_UploadFailed ==
    /\ creation.cover = "file"
    /\ creation.upload = "failed"
    /\ landing.errorMessage = "upload"

(***************************************************************************)
(* The diagram of a team_final event and the latestDiagram effect of       *)
(* ChatPanel (Index.tsx 716-820, ChatPanel.tsx 199-235).                   *)
(***************************************************************************)

MaxWrites == 4

\* useDiagramStore.replaceDiagram(nodes, connections), as ChatPanel uses it
\* (ChatPanel.tsx 157 and 222): the nodes given become the diagram's.
replaceDiagram(store, given) == [nodes |-> given, writes |-> store.writes + 1]

\* useDiagramStore.addNodesFromArchitecture(nodes, connections) (ChatPanel.tsx
\* 159): the nodes given join the diagram's.
addNodesFromArchitecture(store, given) ==
    [nodes |-> store.nodes + given, writes |-> store.writes + 1]

\* The test of the processed ids dropped.
alreadyProcessed_never(id) == FALSE

\* processedDiagramMessages.current.has(id) (ChatPanel.tsx 203).
alreadyProcessed(id) == id \in processed

\* The architecture the effect goes on with (ChatPanel.tsx 208-216).
effectArchitecture(update) ==
    IF (update.architecture = NoArchitecture \/ update.architecture.services = 0)
       /\ update.messageText # ""
    THEN parseResponse(update.messageText)
    ELSE update.architecture

\* The effect of ChatPanel on latestDiagram (ChatPanel.tsx 199-235), run or
\* run again.
ApplyLatestDiagram ==
    /\ latestDiagram # NoDiagram
    /\ IF alreadyProcessed(latestDiagram.messageId)
       THEN /\ applied' = [applied EXCEPT !.skipped = TRUE]
            /\ UNCHANGED <<processed, diagram, called>>
       ELSE /\ diagram.writes < MaxWrites
            /\ processed' = processed \cup {latestDiagram.messageId}
            /\ LET architecture0 == effectArchitecture(latestDiagram)
               IN  IF architecture0 = NoArchitecture
                   THEN /\ applied' = [messageId |-> latestDiagram.messageId,
                                       source |-> "null", outcome |-> "failed",
                                       services |-> 0, skipped |-> FALSE]
                        /\ UNCHANGED <<diagram, called>>
                   ELSE /\ applied' = [messageId |-> latestDiagram.messageId,
                                       source |-> architecture0.source,
                                       outcome |-> "updated",
                                       services |-> architecture0.services,
                                       skipped |-> FALSE]
                        /\ diagram' = replaceDiagram(diagram, architecture0.services)
                        /\ called' = (called \/ persists)
    /\ UNCHANGED <<supabaseClient, route, messages, azureConversationId, inflight, sent, db,
                   ops, thread, lastEvent, latestDiagram, coreVars, analysisVars, landVars,
                   sockVars, sessVars>>

DiagramNext ==
    \/ SendMessage("ws")
    \/ \E ev \in Events : TeamFinal("null", ev)
    \/ ApplyLatestDiagram

DiagramStart == ContextStart

\* Team runs in a workspace, each ending with a team_final event.
SpecDiagram == DiagramStart /\ [][DiagramNext]_vars

(***************************************************************************)
(* Claim C29.                                                              *)
(***************************************************************************)

\* C29: when the effect of ChatPanel has handled a diagram update whose
\* architecture is null or has no service and whose message text is not
\* empty, it has used text parsing of that message; a `diagram` object whose
\* parsing threw or gave null leaves `diagram_raw` to be tried, and a
\* `diagram` string is tried when `diagram_raw` gave nothing; and every
\* team_final event has appended the assistant message and set latestDiagram.
ThmC29_FallbackChain ==
    /\ (/\ applied.messageId = latestDiagram.messageId
        /\ latestDiagram # NoDiagram
        /\ latestDiagram.architecture.services = 0
        /\ latestDiagram.messageText # "") =>
           (applied.source = "text" /\ applied.outcome = "updated")
    /\ (latestDiagram # NoDiagram
        /\ lastEvent.diagram \in {"object-null", "object-throws"}) =>
           /\ lastEvent.diagram_raw = "ok" =>
                  latestDiagram.architecture = [source |-> "diagram_raw", services |-> 2]
           /\ lastEvent.diagram_raw = "empty" =>
                  latestDiagram.architecture = [source |-> "diagram_raw", services |-> 0]
    /\ (latestDiagram # NoDiagram
        /\ lastEvent.diagram = "string-ok"
        /\ lastEvent.diagram_raw \in {"absent", "bad"}) =>
           latestDiagram.architecture = [source |-> "diagram string", services |-> 2]
    /\ (sent.via = "ws" /\ inflight = NoRequest) =>
           /\ latestDiagram.messageId = sent.user + 1
           /\ Len(messages) >= latestDiagram.messageId
           /\ messages[latestDiagram.messageId].role = "assistant"
           /\ latestDiagram.messageText = lastEvent.message

\* The `diagram` object made the parser throw, `diagram_raw` held a diagram
\* without services, and the effect fell back to the message text.
WitC29_ThrowThenRawThenText ==
    /\ lastEvent.diagram = "object-throws"
    /\ lastEvent.diagram_raw = "empty"
    /\ lastEvent.message = "mentions"
    /\ latestDiagram.architecture.source = "diagram_raw"
    /\ applied.messageId = latestDiagram.messageId
    /\ applied.source = "text"

(***************************************************************************)
(* useChat: the WebSocket (Index.tsx 853-920).  Every handler runs to its  *)
(* end before the next one starts; the events of a socket come in the      *)
(* order the WebSocket interface gives them.                               *)
(***************************************************************************)
MaxSockets == 4

\* readyState: "connecting", "open", "closing" (no longer open, its close
\* event still to come), "closed" (its close event delivered).
isOpen(k) == k # 0 /\ sockets[k] = "open"

socketRest == <<coreVars, analysisVars, envVars, chatVars, landVars>>

\* What the socket's handlers and connectWebSocket never touch of useChat.
sessRest == <<isTyping, lastUserMessageRef, load, conversations, inserts, onErrorCalls, clock>>

\* The calls of sendMessage that wait for the promise of socket k.
waitingFor(k) == {t \in awaiting : t.k = k}

\* sendMessage after `await connectWebSocket()` has resolved (Index.tsx
\* 945-952): the payload goes to wsRef.current, `target`, whose readyState
\* is `state`.  Without a socket nothing is sent; send() on a connecting
\* socket throws and the catch of line 953 leads to the REST request of
\* lines 959-985, which sets runState to null; send() on a closing or closed
\* socket drops the payload.
Resumed(turns, target, state) ==
    /\ awaiting' = awaiting \ turns
    /\ wire' = IF target # 0 /\ state = "open"
               THEN wire \cup {[id |-> t.id, k |-> target] : t \in turns}
               ELSE wire
    /\ fetches' = IF target # 0 /\ state = "connecting"
               THEN fetches \cup {[id |-> t.id, cause |-> "threw"] : t \in turns}
               ELSE fetches
    /\ runState' = IF target # 0 /\ state = "connecting" /\ turns # {} THEN NoRun
                   ELSE runState

\* sendMessage after connectWebSocket has rejected (Index.tsx 953-985).
Rejected(turns) ==
    /\ awaiting' = awaiting \ turns
    /\ fetches' = fetches \cup {[id |-> t.id, cause |-> "rejected"] : t \in turns}
    /\ runState' = IF turns # {} THEN NoRun ELSE runState
    /\ UNCHANGED wire

\* connectWebSocket (Index.tsx 853-910).
ConnectWebSocket ==
    /\ IF isOpen(wsRef)
       THEN /\ isConnected' = TRUE
            /\ UNCHANGED <<sockets, wsRef, connectingRef>>
       ELSE IF connectingRef # 0
       THEN UNCHANGED <<sockets, wsRef, connectingRef, isConnected>>
       ELSE /\ Len(sockets) < MaxSockets
            /\ sockets' = Append(sockets, "connecting")
            /\ wsRef' = Len(sockets) + 1
            /\ connectingRef' = Len(sockets) + 1
            /\ UNCHANGED isConnected
    /\ UNCHANGED <<socketRest, sessVars>>

\* disconnect (Index.tsx 912-920).
Disconnect ==
    /\ sockets' = IF wsRef # 0 /\ sockets[wsRef] \in {"connecting", "open"}
                  THEN [sockets EXCEPT ![wsRef] = "closing"]
                  ELSE sockets
    /\ wsRef' = 0
    /\ connectingRef' = 0
    /\ isConnected' = FALSE
    /\ runState' = NoRun
    /\ UNCHANGED <<awaiting, wire, fetches, sessRest, socketRest>>

\* socket.onopen (Index.tsx 869-874); resolve() lets the calls of
\* sendMessage that wait for this socket go on before any other event.
OpenEvent(k) ==
    /\ sockets[k] = "connecting"
    /\ sockets' = [sockets EXCEPT ![k] = "open"]
    /\ isConnected' = TRUE
    /\ connectingRef' = 0
    /\ Resumed(waitingFor(k), wsRef, IF wsRef # 0 THEN sockets'[wsRef] ELSE "none")
    /\ UNCHANGED <<wsRef, sessRest, socketRest>>

\* socket.onerror (Index.tsx 878-890): the connection has failed or has been
\* lost, readyState is no longer OPEN; reject() has an effect only on a
\* promise not yet resolved, that of a socket that never opened.
ErrorEvent(k) ==
    /\ sockets[k] \in {"connecting", "open"}
    /\ sockets' = [sockets EXCEPT ![k] = "closing"]
    /\ isConnected' = FALSE
    /\ connectingRef' = 0
    /\ Rejected(IF sockets[k] = "connecting" THEN waitingFor(k) ELSE {})
    /\ UNCHANGED <<wsRef, sessRest, socketRest>>

\* socket.onclose (Index.tsx 892-900).
CloseEvent(k) ==
    /\ sockets[k] \in {"open", "closing"}
    /\ sockets' = [sockets EXCEPT ![k] = "closed"]
    /\ isConnected' = FALSE
    /\ connectingRef' = 0
    /\ UNCHANGED <<wsRef, sessVars, socketRest>>

SocketNext ==
    \/ ConnectWebSocket
    \/ Disconnect
    \/ \E k \in 1..Len(sockets) : OpenEvent(k)
    \/ \E k \in 1..Len(sockets) : ErrorEvent(k)
    \/ \E k \in 1..Len(sockets) : CloseEvent(k)

SocketStart ==
    /\ CoreIdle /\ AnalysisIdle /\ EnvIdle /\ ChatIdle /\ LandIdle
    /\ SocketIdle /\ SessionIdle

SpecSocket == SocketStart /\ [][SocketNext]_vars

(***************************************************************************)
(* Claim C30.                                                              *)
(***************************************************************************)

\* C30: isConnected holds only while wsRef.current is a socket that has
\* opened and has not closed, and a socket that is current and open is not
\* marked as disconnected by an event of another socket.
OrigC30_ConnectedIffCurrentOpen ==
    /\ isConnected => isOpen(wsRef)
    /\ isOpen(wsRef) => isConnected

\* What the handlers do keep: isConnected holds only while some socket, the
\* current one or an earlier one, is open.
C30_ConnectedOnlyWhileSomeOpen ==
    isConnected => \E k \in 1..Len(sockets) : sockets[k] = "open"

(***************************************************************************)
(* Claim C31.                                                              *)
(***************************************************************************)

\* The sockets that are connecting or open.
liveSockets == {k \in 1..Len(sockets) : sockets[k] \in {"connecting", "open"}}

\* C31: at any time at most one socket created by the hook is connecting or
\* open.
OrigC31_AtMostOneLiveSocket == Cardinality(liveSockets) <= 1

\* What the guard of lines 859-861 does give: no socket is created while
\* connectingRef.current holds a promise.
C31_NoSocketWhilePromiseHeld ==
    [][connectingRef # 0 => Len(sockets') = Len(sockets)]_vars

(***************************************************************************)
(* useChat: the turns of a chat over the WebSocket and their fallback to   *)
(* REST, the run state, and the conversation load (Index.tsx 668-850,      *)
(* 922-1137).  sendMessage is followed across its awaits: what runs        *)
(* between two awaits is one step, and the step after a promise settles    *)
(* runs with the handler that settled it.                                  *)
(***************************************************************************)
MaxTurns == 2

\* The run ids of the backend's events.
RunIds == {"r1", "r2"}

\* createGreetingMessage (Index.tsx 608-617); its id 'greeting' is no id a
\* message of a turn gets.
SessionGreeting == [id |-> -1, role |-> "assistant", content |-> 0, status |-> "sent"]

\* persistMessage(message): the row to insert, if any (Index.tsx 630-647).
persistRow(message) ==
    IF persists THEN {[role |-> message.role, content |-> message.content]} ELSE {}

\* prev.map(msg => msg.id === id ? {...msg, status} : msg)
patched(history, id, status) ==
    [j \in 1..Len(history) |->
        IF history[j].id = id THEN [history[j] EXCEPT !.status = status] ELSE history[j]]

\* prev && prev.runId === runId ? {...prev, status: 'completed'} : prev
completedIf(prev, runId) ==
    IF prev # NoRun /\ prev.runId = runId THEN [prev EXCEPT !.status = "completed"]
    ELSE prev

\* The reducer of trace_event with the test of the run id dropped.
traceUpdate_always(prev, runId) == [runId |-> runId, status |-> "running"]

\* The reducer of trace_event (Index.tsx 706-711).
traceUpdate(prev, runId) ==
    IF prev = NoRun \/ prev.runId # runId THEN [runId |-> runId, status |-> "running"]
    ELSE prev

\* The messages restored from the rows of a load (Index.tsx 1117-1125): the
\* ids are the rows' ids.
restored(rows) ==
    [j \in 1..Len(rows) |->
        [id |-> 0 - (j + 1), role |-> rows[j].role, content |-> rows[j].content,
         status |-> "sent"]]

chatRestOf == <<azureConversationId, inflight, sent, db, ops, thread, applied, processed,
                diagram>>
sessOther == <<coreVars, analysisVars, landVars>>

\* sendMessage on the team path up to `await connectWebSocket()` (Index.tsx
\* 922-944), with the call of connectWebSocket (853-910); with the socket
\* open the promise is resolved and the payload is sent at once (945-952).
SendTeamMessage ==
    /\ route \in {"/app", "/app/p1"}
    /\ clock.sends < MaxTurns
    /\ LET id == clock.now + 1
           userMessage == [id |-> id, role |-> "user", content |-> id,
                           status |-> "sending"]
       IN  /\ messages' = Append(messages, userMessage)
           /\ inserts' = inserts \cup persistRow(userMessage)
           /\ isTyping' = TRUE
           /\ lastUserMessageRef' = id
           /\ clock' = [clock EXCEPT
                            !.now = id,
                            !.sends = @ + 1,
                            !.kept = @ \cup {[id |-> id,
                                              loaded |-> load.phase \in {"none", "done"}]}]
           /\ IF isOpen(wsRef)
              THEN /\ isConnected' = TRUE
                   /\ wire' = wire \cup {[id |-> id, k |-> wsRef]}
                   /\ UNCHANGED <<sockets, wsRef, connectingRef, awaiting>>
              ELSE IF connectingRef # 0
              THEN /\ awaiting' = awaiting \cup {[id |-> id, k |-> connectingRef]}
                   /\ UNCHANGED <<sockets, wsRef, connectingRef, isConnected, wire>>
              ELSE /\ Len(sockets) < MaxSockets
                   /\ sockets' = Append(sockets, "connecting")
                   /\ wsRef' = Len(sockets) + 1
                   /\ connectingRef' = Len(sockets) + 1
                   /\ awaiting' = awaiting \cup {[id |-> id, k |-> Len(sockets) + 1]}
                   /\ UNCHANGED <<isConnected, wire>>
    /\ called' = (called \/ persists)
    /\ UNCHANGED <<supabaseClient, route, runState, fetches, load, conversations,
                   onErrorCalls, chatRestOf, diagVars, sessOther>>

\* handleSocketMessage, team_final (Index.tsx 716-820): the event answers a
\* payload sent over socket k; runId is its run_id or "null", ev what it
\* carries as diagram and message.
SocketTeamFinal(k, runId, ev) ==
    /\ sockets[k] = "open"
    /\ \E w \in wire :
          /\ w.k = k
          /\ wire' = wire \ {w}
    /\ LET assistant == [id |-> clock.now + 1, role |-> "assistant",
                         content |-> clock.now + 1, status |-> "sent"]
       IN  /\ messages' = Append(patched(messages, lastUserMessageRef, "sent"), assistant)
           /\ inserts' = inserts \cup persistRow(assistant)
           /\ latestDiagram' = [messageId |-> assistant.id,
                                architecture |-> structuredOf(ev),
                                raw |-> ev.diagram_raw,
                                messageText |-> ev.message]
    /\ lastEvent' = ev
    /\ clock' = [clock EXCEPT !.now = @ + 1,
                              !.event = [type |-> "team_final", runId |-> runId]]
    /\ lastUserMessageRef' = NoRef
    /\ isTyping' = FALSE
    /\ runState' = IF runId # "null" THEN completedIf(runState, runId) ELSE runState
    /\ called' = (called \/ persists)
    /\ UNCHANGED <<supabaseClient, route, awaiting, fetches, load, conversations,
                   onErrorCalls, chatRestOf, sockVars, sessOther>>

\* handleSocketMessage, error (Index.tsx 833-845).
SocketError(k) ==
    /\ sockets[k] = "open"
    /\ \E w \in wire :
          /\ w.k = k
          /\ wire' = wire \ {w}
    /\ messages' = patched(messages, lastUserMessageRef, "error")
    /\ isTyping' = FALSE
    /\ onErrorCalls' = onErrorCalls + 1
    /\ lastUserMessageRef' = NoRef
    /\ runState' = IF runState # NoRun THEN [runState EXCEPT !.status = "completed"]
                   ELSE runState
    /\ clock' = [clock EXCEPT !.event = [type |-> "error", runId |-> "null"]]
    /\ UNCHANGED <<envVars, awaiting, fetches, load, conversations, inserts,
                   chatRestOf, diagVars, sockVars, sessOther>>

\* handleSocketMessage, run_started (Index.tsx 694-701).
RunStarted(k, runId) ==
    /\ sockets[k] = "open"
    /\ runState' = [runId |-> runId, status |-> "running"]
    /\ isTyping' = TRUE
    /\ clock' = [clock EXCEPT !.event = [type |-> "run_started", runId |-> runId]]
    /\ UNCHANGED <<envVars, messages, lastUserMessageRef, awaiting, wire, fetches, load,
                   conversations, inserts, onErrorCalls, chatRestOf, diagVars,
                   sockVars, sessOther>>

\* handleSocketMessage, trace_event (Index.tsx 703-714).
TraceEvent(k, runId) ==
    /\ sockets[k] = "open"
    /\ runState' = traceUpdate(runState, runId)
    /\ clock' = [clock EXCEPT !.event = [type |-> "trace_event", runId |-> runId]]
    /\ UNCHANGED <<envVars, messages, isTyping, lastUserMessageRef, awaiting, wire, fetches,
                   load, conversations, inserts, onErrorCalls, chatRestOf, diagVars,
                   sockVars, sessOther>>

\* handleSocketMessage, run_completed (Index.tsx 822-831).
RunCompleted(k, runId) ==
    /\ sockets[k] = "open"
    /\ runState' = IF runId # "null" THEN completedIf(runState, runId) ELSE runState
    /\ isTyping' = FALSE
    /\ clock' = [clock EXCEPT !.event = [type |-> "run_completed", runId |-> runId]]
    /\ UNCHANGED <<envVars, messages, lastUserMessageRef, awaiting, wire, fetches, load,
                   conversations, inserts, onErrorCalls, chatRestOf, diagVars,
                   sockVars, sessOther>>

\* The fetch of the REST path answers (Index.tsx 992-1017), without a
\* conversation_id.
RestOk(f) ==
    /\ f \in fetches
    /\ fetches' = fetches \ {f}
    /\ LET assistant == [id |-> clock.now + 1, role |-> "assistant",
                         content |-> clock.now + 1, status |-> "sent"]
       IN  /\ messages' = Append(patched(messages, f.id, "sent"), assistant)
           /\ inserts' = inserts \cup persistRow(assistant)
    /\ clock' = [clock EXCEPT !.now = @ + 1]
    /\ isTyping' = FALSE
    /\ lastUserMessageRef' = NoRef
    /\ called' = (called \/ persists)
    /\ UNCHANGED <<supabaseClient, route, runState, awaiting, wire, load, conversations,
                   onErrorCalls, chatRestOf, diagVars, sockVars, sessOther>>

\* The fetch fails or answers with an error status (Index.tsx 986-990 and
\* 1018-1026).
RestFail(f) ==
    /\ f \in fetches
    /\ fetches' = fetches \ {f}
    /\ messages' = patched(messages, f.id, "error")
    /\ isTyping' = FALSE
    /\ onErrorCalls' = onErrorCalls + 1
    /\ lastUserMessageRef' = NoRef
    /\ UNCHANGED <<envVars, runState, awaiting, wire, load, conversations, inserts, clock,
                   chatRestOf, diagVars, sockVars, sessOther>>

\* Supabase answers the select of the load with the rows it has (Index.tsx
\* 1074-1084).
LoadSelect ==
    /\ load.phase = "selecting"
    /\ load' = [phase |-> "selected", rows |-> conversations]
    /\ UNCHANGED <<envVars, chatVars, sockVars, isTyping, lastUserMessageRef, runState,
                   awaiting, wire, fetches, conversations, inserts, onErrorCalls, clock,
                   sessOther>>

\* loadConversation after its await (Index.tsx 1086-1126); the project row
\* has no thread id and neither have the rows.
LoadComplete ==
    /\ load.phase = "selected"
    /\ load' = [phase |-> "done", rows |-> <<>>]
    /\ messages' = IF Len(load.rows) = 0 THEN <<SessionGreeting>> ELSE restored(load.rows)
    /\ UNCHANGED <<envVars, chatRestOf, diagVars, sockVars, isTyping, lastUserMessageRef,
                   runState, awaiting, wire, fetches, conversations, inserts, onErrorCalls,
                   clock, sessOther>>

\* Supabase carries out an insert of persistMessage.
InsertRow(r) ==
    /\ r \in inserts
    /\ inserts' = inserts \ {r}
    /\ conversations' = Append(conversations, r)
    /\ UNCHANGED <<envVars, chatVars, sockVars, isTyping, lastUserMessageRef, runState,
                   awaiting, wire, fetches, load, onErrorCalls, clock, sessOther>>

\* clearMessages (Index.tsx 1041-1045).
ClearMessages ==
    /\ clock.kept # {}
    /\ messages' = <<SessionGreeting>>
    /\ azureConversationId' = "null"
    /\ latestDiagram' = NoDiagram
    /\ clock' = [clock EXCEPT !.kept = {}]
    /\ UNCHANGED <<envVars, inflight, sent, db, ops, thread, lastEvent, applied, processed,
                   diagram,
                   sockVars, isTyping, lastUserMessageRef, runState, awaiting, wire,
                   fetches, load, conversations, inserts, onErrorCalls, sessOther>>

\* The events of the sockets and of the backend, and the answers to fetch.
TransportNext ==
    \/ \E k \in 1..Len(sockets) : OpenEvent(k)
    \/ \E k \in 1..Len(sockets) : ErrorEvent(k)
    \/ \E k \in 1..Len(sockets) : CloseEvent(k)
    \/ \E f \in fetches : RestOk(f)
    \/ \E f \in fetches : RestFail(f)

BackendNext ==
    \/ \E k \in 1..Len(sockets), runId \in RunIds \cup {"null"} :
          SocketTeamFinal(k, runId, PlainEvent)
    \/ \E k \in 1..Len(sockets) : SocketError(k)
    \/ \E k \in 1..Len(sockets), runId \in RunIds : RunStarted(k, runId)
    \/ \E k \in 1..Len(sockets), runId \in RunIds : TraceEvent(k, runId)
    \/ \E k \in 1..Len(sockets), runId \in RunIds \cup {"null"} : RunCompleted(k, runId)

\* A workspace without Supabase keys: nothing is loaded or stored.
SessionNext ==
    \/ SendTeamMessage
    \/ Disconnect
    \/ TransportNext
    \/ BackendNext

SessionInit ==
    /\ messages = <<SessionGreeting>>
    /\ azureConversationId = "null"
    /\ inflight = NoRequest
    /\ sent = NoPayload
    /\ db = [project |-> "null", rows |-> <<>>]
    /\ ops = <<>>
    /\ thread = NoThread
    /\ DiagramIdle
    /\ isTyping = FALSE
    /\ lastUserMessageRef = NoRef
    /\ runState = NoRun
    /\ awaiting = {}
    /\ wire = {}
    /\ fetches = {}
    /\ conversations = <<>>
    /\ inserts = {}
    /\ onErrorCalls = 0
    /\ clock = [now |-> 0, sends |-> 0, kept |-> {}, event |-> NoEvent]

SessionStart ==
    /\ SessionInit /\ CoreIdle /\ AnalysisIdle /\ LandIdle /\ SocketIdle
    /\ supabaseClient = "null" /\ called = FALSE /\ route = "/app"
    /\ load = NoLoad

SpecSession == SessionStart /\ [][SessionNext]_vars

\* The workspace of a project just opened: the load of its conversation is
\* under way (Index.tsx 1064-1137).
ProjectNext ==
    \/ SendTeamMessage
    \/ TransportNext
    \/ \E k \in 1..Len(sockets) : SocketTeamFinal(k, "null", PlainEvent)
    \/ LoadSelect
    \/ LoadComplete
    \/ \E r \in inserts : InsertRow(r)
    \/ ClearMessages

ProjectStart ==
    /\ SessionInit /\ CoreIdle /\ AnalysisIdle /\ LandIdle /\ SocketIdle
    /\ supabaseClient = "client" /\ called = FALSE /\ route = "/app/p1"
    /\ load = [phase |-> "selecting", rows |-> <<>>]

SpecProject == ProjectStart /\ [][ProjectNext]_vars

(***************************************************************************)
(* Claim C32.                                                              *)
(***************************************************************************)

\* A user message with this content is shown.
shown(content) ==
    \E j \in 1..Len(messages) : messages[j].role = "user" /\ messages[j].content = content

\* C32: a user message appended by sendMessage and not cleared since by
\* clearMessages is in messages, also when a conversation load was under
\* way as it was sent.
OrigC32_SentMessageStays == \A t \in clock.kept : shown(t.id)

\* The same for the messages sent with no load under way.
C32_StaysOnceLoaded == \A t \in clock.kept : t.loaded => shown(t.id)

(***************************************************************************)
(* Claim C33.                                                              *)
(***************************************************************************)

\* The browser delivers the events of the sockets and settles the fetches;
\* nothing obliges the user to send or the backend to answer.
SpecSessionFair == SpecSession /\ WF_vars(TransportNext)

\* A payload went out, every socket that carried an unanswered payload has
\* closed, and no call of sendMessage is waiting for a socket or a fetch.
ConnectionLost ==
    /\ wire # {}
    /\ \A w \in wire : sockets[w.k] = "closed"
    /\ awaiting = {}
    /\ fetches = {}

\* C33: isTyping does not stay true for ever once the connection is lost
\* without a reply.
OrigC33_TypingEndsWhenConnectionLost == (isTyping /\ ConnectionLost) ~> ~isTyping

\* What the handlers do give: a reply over the socket or a settled fetch
\* leaves isTyping false.
C33_ReplyEndsTyping ==
    [][(Cardinality(wire') < Cardinality(wire) \/ Cardinality(fetches') < Cardinality(fetches))
          => ~isTyping']_vars

(***************************************************************************)
(* Claim C34.                                                              *)
(***************************************************************************)

\* A team_final or error event has been handled in this step: it answered
\* a payload.
replyHandled == Cardinality(wire') < Cardinality(wire)

\* C34: when a team_final or error event has been handled no user message
\* is left in status 'sending'.
OrigC34_NoMessageLeftSending ==
    [][replyHandled =>
          \A j \in 1..Len(messages') :
              messages'[j].role = "user" => messages'[j].status # "sending"]_vars

\* What the handlers do give: the message lastUserMessageRef names is no
\* longer 'sending'.
C34_LastMessageSettled ==
    [][replyHandled =>
          \A j \in 1..Len(messages) :
              messages[j].id = lastUserMessageRef => messages'[j].status # "sending"]_vars

(***************************************************************************)
(* Claim C35.                                                              *)
(***************************************************************************)

\* How often the message with this id is in a history.
occurrences(history, id) == Cardinality({j \in 1..Len(history) : history[j].id = id})

\* After the fetch of f has settled: the message is there once, 'sent' with
\* one assistant message appended or 'error' with onError called, isTyping
\* is false and lastUserMessageRef is cleared.
settledRight(f) ==
    /\ occurrences(messages', f.id) = 1
    /\ \A j \in 1..Len(messages') :
          messages'[j].id = f.id =>
              \/ /\ messages'[j].status = "sent"
                 /\ Len(messages') = Len(messages) + 1
                 /\ messages'[Len(messages')].role = "assistant"
                 /\ onErrorCalls' = onErrorCalls
              \/ /\ messages'[j].status = "error"
                 /\ Len(messages') = Len(messages)
                 /\ onErrorCalls' = onErrorCalls + 1
    /\ ~isTyping'
    /\ lastUserMessageRef' = NoRef

\* The messages sent and not cleared since by clearMessages.
keptIds == {t.id : t \in clock.kept}

\* C35: a message whose connectWebSocket rejected goes through the REST
\* API, and when the REST call settles it is in messages exactly once, in
\* status 'sent' or 'error', with isTyping false and the ref cleared.
OrigC35_FallbackSettles ==
    [][\A f \in fetches :
          (f.cause = "rejected" /\ f \notin fetches' /\ f.id \in keptIds)
              => settledRight(f)]_vars

\* The same for the messages sent with no conversation load under way.
C35_SettlesOnceLoaded ==
    [][\A f \in fetches :
          (f.cause = "rejected" /\ f \notin fetches'
             /\ [id |-> f.id, loaded |-> TRUE] \in clock.kept)
              => settledRight(f)]_vars

(***************************************************************************)
(* Claim C36.                                                              *)
(***************************************************************************)

\* C36: a team_final or run_completed event with another run id than the
\* current run's leaves runState as it is, and a trace_event with the
\* current run's id leaves it as it is, also after that run has completed.
ThmC36_RunStateFrame ==
    [][/\ \A k \in 1..Len(sockets), runId \in RunIds \cup {"null"} :
              (SocketTeamFinal(k, runId, PlainEvent) \/ RunCompleted(k, runId))
                 /\ runId # runState.runId => runState' = runState
       /\ \A k \in 1..Len(sockets), runId \in RunIds :
              TraceEvent(k, runId) /\ runState.runId = runId => runState' = runState]_vars

\* A trace_event with the id of the run that has completed has been handled.
WitC36_LateTraceEvent ==
    /\ clock.event = [type |-> "trace_event", runId |-> "r1"]
    /\ runState = [runId |-> "r1", status |-> "completed"]

(***************************************************************************)
(* ChatPanel and the diagram store: the latestDiagram effect, the buttons   *)
(* that call visualizeArchitecture, and a change of project (ChatPanel.tsx *)
(* 115-161 and 199-235, Index.tsx 1064-1069).                              *)
(***************************************************************************)

\* What a team_final event brings the panel: no architecture, one without
\* services or one with services, and a message text.
PanelEvents ==
    {ev \in Events : ev.diagram \in {"absent", "object-ok", "object-empty"}
                     /\ ev.diagram_raw = "absent"}

\* The structured diagram a message carries for the buttons.
Structured == {NoArchitecture, [source |-> "structured", services |-> 0],
               [source |-> "structured", services |-> 2]}

\* visualizeArchitecture(messageContent, replaceExisting, structured)
\* (ChatPanel.tsx 120-177).
VisualizeArchitecture(messageContent, replaceExisting, structured) ==
    /\ diagram.writes < MaxWrites
    /\ LET architecture0 == IF structured # NoArchitecture THEN structured
                            ELSE parseResponse(messageContent)
       IN  IF architecture0.services = 0
           THEN /\ applied' = [messageId |-> 0, source |-> architecture0.source,
                               outcome |-> "nothing found", services |-> 0,
                               skipped |-> FALSE]
                /\ UNCHANGED <<diagram, called>>
           ELSE /\ applied' = [messageId |-> 0, source |-> architecture0.source,
                               outcome |-> "visualized",
                               services |-> architecture0.services, skipped |-> FALSE]
                /\ diagram' = IF replaceExisting
                              THEN replaceDiagram(diagram, architecture0.services)
                              ELSE addNodesFromArchitecture(diagram, architecture0.services)
                /\ called' = (called \/ persists)
    /\ UNCHANGED <<supabaseClient, route, messages, azureConversationId, inflight, sent, db,
                   ops, thread, lastEvent, latestDiagram, processed, coreVars, analysisVars,
                   landVars, sockVars, sessVars>>

\* projectId changes in a workspace without Supabase: useChat starts the
\* chat again (Index.tsx 1064-1069) and ChatPanel clears its processed ids
\* (ChatPanel.tsx 115-117).
ProjectChanged ==
    /\ supabaseClient = "null"
    /\ route \in {"/app", "/app/p1"}
    /\ route' = IF route = "/app" THEN "/app/p1" ELSE "/app"
    /\ messages' = <<SessionGreeting>>
    /\ azureConversationId' = "null"
    /\ processed' = {}
    /\ clock' = [clock EXCEPT !.kept = {}]
    /\ UNCHANGED <<supabaseClient, called, inflight, sent, db, ops, thread, lastEvent,
                   latestDiagram, applied, diagram, sockVars, isTyping, lastUserMessageRef,
                   runState, awaiting, wire, fetches, load, conversations, inserts,
                   onErrorCalls, sessOther>>

PanelNext ==
    \/ SendTeamMessage
    \/ \E k \in 1..Len(sockets) : OpenEvent(k)
    \/ \E k \in 1..Len(sockets), ev \in PanelEvents : SocketTeamFinal(k, "null", ev)
    \/ ApplyLatestDiagram
    \/ \E messageContent \in Texts, replaceExisting \in BOOLEAN, structured \in Structured :
          VisualizeArchitecture(messageContent, replaceExisting, structured)
    \/ ProjectChanged

PanelStart == SessionStart

SpecPanel == PanelStart /\ [][PanelNext]_vars

(***************************************************************************)
(* Claims C37 and C38.                                                     *)
(***************************************************************************)

\* The latestDiagram effect wrote the diagram store in this step.
effectWrote == diagram'.writes # diagram.writes /\ applied'.outcome = "updated"

OrigC38_NoServicesNoChange ==
    [][diagram'.nodes # diagram.nodes => applied'.services > 0]_vars

\* visualizeArchitecture was called in this step.
VisualizeCalled ==
    \E messageContent \in Texts, replaceExisting \in BOOLEAN, structured \in Structured :
        VisualizeArchitecture(messageContent, replaceExisting, structured)

\* The same for visualizeArchitecture alone: without services it writes
\* nothing to the store.
C38_VisualizeNeedsServices ==
    [][VisualizeCalled => (diagram' # diagram => applied'.services > 0)]_vars


(***************************************************************************)
(* The IaC store under all five of its operations.  The templates and      *)
(* snippets handed in are a few short texts: a declaration written as      *)
(* parseBicepResources writes it out again, one written otherwise, and the *)
(* blank texts.                                                            *)
(***************************************************************************)
StoreTemplates ==
    { <<"D1", "=", LBrace, RBrace>>,
      <<"D2", "=", LBrace, RBrace, Newline, "D1", LBrace, RBrace>>,
      <<>>, <<Newline>> }
StoreNames == {"web", "widget", "gone"}
PreviousSnippets == {<<>>, <<Newline>>, <<LBrace, RBrace>>, <<"D3">>}
UpdatedSnippets == {<<>>, <<Newline>>, <<LBrace, "Pa", "x", RBrace>>}

\* The state of the store.
storeNow ==
    [currentBicepTemplate |-> currentBicepTemplate,
     bicepResourcesByService |-> bicepResourcesByService,
     pendingBicepTemplateUpdate |-> pendingBicepTemplateUpdate]

\* The edit handed to the store by the calls so far and not yet fetched or
\* withdrawn, null when there is none.
dueOf(call) == IF "due" \in DOMAIN call THEN call.due ELSE "null"

storeFrame == <<gen, template, lastIndex, resources, bpc, calls,
                normVars, nodeVars, textVars, appVars>>

UpdateBicepResource(resourceName, previousSnippet, updatedSnippet) ==
    /\ bpc # "scan"
    /\ LET call == updateBicepResource(resourceName, previousSnippet, updatedSnippet,
                                       lastIndex, storeNow)
       IN  /\ currentBicepTemplate' = call.state.currentBicepTemplate
           /\ bicepResourcesByService' = call.state.bicepResourcesByService
           /\ pendingBicepTemplateUpdate' = call.state.pendingBicepTemplateUpdate
           /\ storeCall' = [op |-> "updateBicepResource",
                            resourceName |-> resourceName,
                            previousSnippet |-> previousSnippet,
                            newTemplate |-> call.newTemplate,
                            before |-> storeNow,
                            due |-> IF call.newTemplate = "null" THEN dueOf(storeCall)
                                    ELSE call.newTemplate]
    /\ UNCHANGED storeFrame

ApplyBicepTemplateEdit(t) ==
    /\ bpc # "scan"
    /\ LET after == applyBicepTemplateEdit(t, lastIndex, storeNow)
       IN  /\ currentBicepTemplate' = after.currentBicepTemplate
           /\ bicepResourcesByService' = after.bicepResourcesByService
           /\ pendingBicepTemplateUpdate' = after.pendingBicepTemplateUpdate
    /\ storeCall' = [op |-> "applyBicepTemplateEdit", template |-> t, due |-> t]
    /\ UNCHANGED storeFrame

ConsumePendingBicepTemplate ==
    /\ bpc # "scan"
    /\ LET call == consumePendingBicepTemplate(storeNow)
       IN  /\ currentBicepTemplate' = call.state.currentBicepTemplate
           /\ bicepResourcesByService' = call.state.bicepResourcesByService
           /\ pendingBicepTemplateUpdate' = call.state.pendingBicepTemplateUpdate
           /\ storeCall' = [op |-> "consumePendingBicepTemplate",
                            pending |-> call.pending,
                            was |-> dueOf(storeCall),
                            due |-> "null"]
    /\ UNCHANGED storeFrame

Clear ==
    /\ bpc # "scan"
    /\ LET after == clearStore(storeNow)
       IN  /\ currentBicepTemplate' = after.currentBicepTemplate
           /\ bicepResourcesByService' = after.bicepResourcesByService
           /\ pendingBicepTemplateUpdate' = after.pendingBicepTemplateUpdate
    /\ storeCall' = [op |-> "clear", due |-> "null"]
    /\ UNCHANGED storeFrame

StoreNext ==
    \/ ParseCall
    \/ \E t \in StoreTemplates : SetBicepTemplate(t)
    \/ \E resourceName \in StoreNames, previousSnippet \in PreviousSnippets,
          updatedSnippet \in UpdatedSnippets :
           UpdateBicepResource(resourceName, previousSnippet, updatedSnippet)
    \/ \E t \in StoreTemplates : ApplyBicepTemplateEdit(t)
    \/ ConsumePendingBicepTemplate
    \/ Clear

StoreStart == IacStart /\ gen = "tokens"

SpecStore == StoreStart /\ [][StoreNext]_vars

\* The resource map is the one built from the current template.
mapInStep ==
    IF currentBicepTemplate = "null"
    THEN DOMAIN bicepResourcesByService = {}
    ELSE bicepResourcesByService =
             buildResourceMap(parseBicepResources(currentBicepTemplate, 0))

\* C39: in every reachable state of the IaC store the resource map is the
\* one built from parseBicepResources(currentBicepTemplate) when the current
\* template is not null and is empty when it is null; an updateBicepResource
\* that fails (no current template, or neither the snippet nor the resource
\* name found) returns null and leaves the state unchanged.
ThmC39_MapFollowsTemplate ==
    /\ mapInStep
    /\ /\ storeCall.op = "updateBicepResource"
       /\ \/ falsy(storeCall.before.currentBicepTemplate)
          \/ /\ ~(IF blankOrNull(storeCall.previousSnippet) THEN FALSE
                  ELSE includes(storeCall.before.currentBicepTemplate,
                                storeCall.previousSnippet))
             /\ findByName(storeCall.before.bicepResourcesByService,
                           storeCall.resourceName) = <<>>
       => /\ storeCall.newTemplate = "null"
          /\ sameText(currentBicepTemplate, storeCall.before.currentBicepTemplate)
          /\ bicepResourcesByService = storeCall.before.bicepResourcesByService
          /\ sameText(pendingBicepTemplateUpdate,
                      storeCall.before.pendingBicepTemplateUpdate)

\* A resource of a template of two was replaced through its name, the map
\* rebuilt from the new text, and an update naming no resource then failed
\* with an edit still pending.
WitC39_UpdatedThenFailed ==
    /\ storeCall.op = "updateBicepResource"
    /\ storeCall.newTemplate = "null"
    /\ currentBicepTemplate # "null"
    /\ pendingBicepTemplateUpdate # "null"
    /\ pendingBicepTemplateUpdate = currentBicepTemplate
    /\ DOMAIN bicepResourcesByService # {}
    /\ currentBicepTemplate \notin StoreTemplates

\* C40: after applyBicepTemplateEdit(t), for every text t including the
\* empty one, or after a successful updateBicepResource producing t, the next
\* consumePendingBicepTemplate returns t and the one after it returns null,
\* unless setBicepTemplate or clear comes in between; setBicepTemplate and
\* clear never leave a pending update.
OrigC40_PendingDeliveredOnce ==
    /\ storeCall.op = "consumePendingBicepTemplate" =>
           sameText(storeCall.pending, storeCall.was)
    /\ storeCall.op \in {"setBicepTemplate", "clear"} =>
           pendingBicepTemplateUpdate = "null"

\* The same for every edit but the empty text: it is returned by the next
\* consumePendingBicepTemplate and null by the one after it, and
\* setBicepTemplate and clear leave no pending update.
C40_NonEmptyDeliveredOnce ==
    /\ storeCall.op = "consumePendingBicepTemplate" /\ ~sameText(storeCall.was, <<>>) =>
           sameText(storeCall.pending, storeCall.was)
    /\ storeCall.op \in {"setBicepTemplate", "clear"} =>
           pendingBicepTemplateUpdate = "null"

=============================================================================
